---- MODULE Spec2Model ----
(***************************************************************************)
(* A model of the Suru front end (paul-ciorogar/suru-lang): the lexer of   *)
(* src/src/lexer.c, the stack-driven parser of src/src/parser.c with its   *)
(* shunting-yard expression sub-parser, the parse tree of                  *)
(* src/src/parse_tree.c, the AST builder of src/src/ast_builder.c, the     *)
(* interpreter of src/src/interpreter.c, the formatter of                  *)
(* src/src/formatter.c and the command drivers of src/src/main.c.          *)
(*                                                                         *)
(* Source text is a sequence of bytes, each written as a short string.  C indices are kept *)
(* 0-based (-1 = none); Node(t, i) reads element i of a C array held as a  *)
(* TLA+ sequence.                                                          *)
(***************************************************************************)
EXTENDS Integers, Sequences, FiniteSets, TLC

VARIABLES
    lexer,      \* the Lexer (SpecLex: the lexer under test; Spec: the parser's lexer)
    pc,         \* which part of the driver is running
    stack,      \* Parser.stack: the ParserStackFrame array
    tree,       \* ParseTree.nodes
    errors,     \* Parser.errors as a sequence (head first)
    consumed,   \* history: the tokens the parser has advanced over, in order
    fmt,        \* the Formatter: stack, output written, indent, line-start flag
    ast,        \* the AST built by build_ast_from_parse_tree: nodes and root
    interp,     \* the Interpreter: variables, and what it wrote to stdout and stderr
    exit,       \* the command's return value, -1 while it runs
    expr,       \* SpecExpr: the expression sub-parser under test
    strings,    \* SpecStrings: the StringStorage under test and the calls made on it
    array,      \* SpecArray: the Array under test
    block,      \* execute_block's loop: the statement it is at, and those it has run
    arena       \* SpecArena: the Arena under test and the calls made on it

vars == <<lexer, pc, stack, tree, errors, consumed, fmt, ast, interp, exit, expr, strings, array, block,
          arena>>

\* What memory holds before it is written (malloc'ed memory, a local that is not
\* initialized).
Indeterminate == "indeterminate"

\* What the variables of a part that is not running hold.
NoStrings == <<>>
NoArray == <<>>
NoBlock == [child |-> -1, ran |-> <<>>]
NoArena == <<>>

(***************************************************************************)
(* Characters                                                              *)
(***************************************************************************)
NUL == "NUL"          \* '\0', what current_char returns past the end
NL == "nl"            \* '\n'
TAB == "tab"          \* '\t'
CR == "cr"            \* '\r'
BSLASH == "bs"        \* backslash
DQUOTE == "dq"        \* double quote
SQUOTE == "sq"        \* single quote
BTICK == "bt"         \* backtick

Lower == {"a","b","c","d","e","f","g","h","i","j","k","l","m",
          "n","o","p","q","r","s","t","u","v","w","x","y","z"}
Upper == {"A","B","C","F","M","T","X"}
Digit == {"0","1","2","3","4","5","6","7","8","9"}
DigitSeq == <<"0","1","2","3","4","5","6","7","8","9">>

IsAlpha(c) == c \in Lower \cup Upper
IsUpper(c) == c \in Upper
IsDigit(c) == c \in Digit
IsIdentifierStart(c) == IsAlpha(c) \/ c = "_"
IsIdentifierChar(c) == IsAlpha(c) \/ IsDigit(c) \/ c = "_"

NoText == <<>>        \* Token.text == NULL (no token has an empty lexeme)

TokenTypes ==
    {"EOF", "NEWLINE", "MODULE", "IMPORT", "EXPORT", "RETURN", "MATCH", "TYPE",
     "TRY", "AND", "OR", "NOT", "TRUE", "FALSE", "THIS", "PARTIAL", "IDENTIFIER",
     "NUMBER_BINARY", "NUMBER_OCTAL", "NUMBER_HEX", "NUMBER_FLOAT", "NUMBER",
     "COLON", "SEMICOLON", "COMMA", "DOT", "PIPE", "UNDERSCORE", "STAR",
     "LPAREN", "RPAREN", "LBRACE", "RBRACE", "LBRACKET", "RBRACKET", "LANGLE",
     "RANGLE", "PLUS", "MINUS", "STRING", "STRING_I_START", "STRING_I_END",
     "STRING_I", "STRING_I_INDENT", "STRING_I_EXPR_START", "STRING_I_EXPR_END",
     "COMMENT", "DOCUMENTATION", "UNKNOWN"}

(***************************************************************************)
(* Lexer (src/src/lexer.c)                                                 *)
(***************************************************************************)
\* source[i] read directly; the buffer read_file returns holds '\0' at [length].
SourceAt(lx, i) == IF i < Len(lx.source) THEN lx.source[i + 1] ELSE NUL

CurrentChar(lx) == IF lx.position >= Len(lx.source) THEN NUL ELSE lx.source[lx.position + 1]

PeekChar(lx, offset) ==
    IF lx.position + offset >= Len(lx.source) THEN NUL
    ELSE lx.source[lx.position + offset + 1]

AdvanceLexer(lx) ==
    IF lx.position < Len(lx.source)
    THEN IF lx.source[lx.position + 1] = NL
         THEN [lx EXCEPT !.line = @ + 1, !.column = 1, !.position = @ + 1]
         ELSE [lx EXCEPT !.column = @ + 1, !.position = @ + 1]
    ELSE lx

RECURSIVE AdvanceN(_, _)
AdvanceN(lx, n) == IF n <= 0 THEN lx ELSE AdvanceN(AdvanceLexer(lx), n - 1)

\* while (current_char(lexer) is in S) advance_lexer(lexer);   (NUL is never in S)
RECURSIVE AdvanceWhileIn(_, _)
AdvanceWhileIn(lx, S) ==
    IF CurrentChar(lx) \in S THEN AdvanceWhileIn(AdvanceLexer(lx), S) ELSE lx

\* while (c != stop && c != '\0') advance_lexer(lexer);
RECURSIVE AdvanceUntilIn(_, _)
AdvanceUntilIn(lx, S) ==
    IF CurrentChar(lx) \in S \cup {NUL} THEN lx ELSE AdvanceUntilIn(AdvanceLexer(lx), S)

SkipWhitespace(lx) == AdvanceWhileIn(lx, {" ", TAB, CR})

TextFrom(lx, start) == SubSeq(lx.source, start + 1, lx.position)

NewToken(type, lx) == [type |-> type, text |-> NoText, line |-> lx.line, column |-> lx.column]

NewTokenFromText(type, lx, start) ==
    [type |-> type, text |-> TextFrom(lx, start), line |-> lx.line, column |-> lx.column]

RECURSIVE DecimalText(_)
DecimalText(n) ==
    IF n < 10 THEN <<DigitSeq[n + 1]>>
    ELSE Append(DecimalText(n \div 10), DigitSeq[(n % 10) + 1])

NewTokenFromVal(type, lx, value) ==
    [type |-> type, text |-> DecimalText(value), line |-> lx.line, column |-> lx.column]

\* What a call hands back: the lexer after the call and the token returned.
\* hung = TRUE: the call never returns (a loop that cannot leave).
Ret(lx, tok) == [lx |-> lx, tok |-> tok, hung |-> FALSE]
Hang(lx) == [lx |-> lx, tok |-> NewToken("UNKNOWN", lx), hung |-> TRUE]

ReadTypeSuffix(lx) ==
    LET c == CurrentChar(lx)
        n1 == PeekChar(lx, 1)
        n2 == PeekChar(lx, 2)
        n3 == PeekChar(lx, 3)
        n4 == PeekChar(lx, 4)
    IN  IF c \in {"i", "u"}
        THEN IF n1 = "8" /\ ~IsIdentifierChar(n2) THEN AdvanceN(lx, 2)
             ELSE IF n1 = "1" /\ n2 = "6" /\ ~IsIdentifierChar(n3) THEN AdvanceN(lx, 3)
             ELSE IF n1 = "3" /\ n2 = "2" /\ ~IsIdentifierChar(n3) THEN AdvanceN(lx, 3)
             ELSE IF n1 = "6" /\ n2 = "4" /\ ~IsIdentifierChar(n3) THEN AdvanceN(lx, 3)
             ELSE IF n1 = "1" /\ n2 = "2" /\ n3 = "8" /\ ~IsIdentifierChar(n4)
                  THEN AdvanceN(lx, 4)
             ELSE lx
        ELSE IF c = "f"
        THEN IF n1 = "1" /\ n2 = "6" /\ ~IsIdentifierChar(n3) THEN AdvanceN(lx, 3)
             ELSE IF n1 = "3" /\ n2 = "2" /\ ~IsIdentifierChar(n3) THEN AdvanceN(lx, 3)
             ELSE IF n1 = "6" /\ n2 = "4" /\ ~IsIdentifierChar(n3) THEN AdvanceN(lx, 3)
             ELSE IF n1 = "1" /\ n2 = "2" /\ n3 = "8" /\ ~IsIdentifierChar(n4)
                  THEN AdvanceN(lx, 4)
             ELSE lx
        ELSE lx

KeywordOf(text) ==
    CASE text = <<"p","a","r","t","i","a","l">> -> "PARTIAL"
      [] text = <<"m","o","d","u","l","e">> -> "MODULE"
      [] text = <<"i","m","p","o","r","t">> -> "IMPORT"
      [] text = <<"e","x","p","o","r","t">> -> "EXPORT"
      [] text = <<"r","e","t","u","r","n">> -> "RETURN"
      [] text = <<"m","a","t","c","h">> -> "MATCH"
      [] text = <<"f","a","l","s","e">> -> "FALSE"
      [] text = <<"t","y","p","e">> -> "TYPE"
      [] text = <<"t","r","u","e">> -> "TRUE"
      [] text = <<"t","h","i","s">> -> "THIS"
      [] text = <<"a","n","d">> -> "AND"
      [] text = <<"t","r","y">> -> "TRY"
      [] text = <<"o","r">> -> "OR"
      [] OTHER -> "IDENTIFIER"

ReadIdentifierOrKeyword(lx) ==
    LET start == lx.position
        lx2 == AdvanceWhileIn(lx, Lower \cup Upper \cup Digit \cup {"_"})
        text == TextFrom(lx2, start)
    IN  IF IsUpper(text[1]) \/ Len(text) > 7
        THEN Ret(lx2, NewTokenFromText("IDENTIFIER", lx2, start))
        ELSE IF KeywordOf(text) # "IDENTIFIER"
             THEN Ret(lx2, NewToken(KeywordOf(text), lx2))
             ELSE Ret(lx2, NewTokenFromText("IDENTIFIER", lx2, start))

ReadNumber(lx) ==
    LET start == lx.position
        c == CurrentChar(lx)
        p == PeekChar(lx, 1)
    IN  IF c = "0" /\ p = "b"
        THEN LET l == ReadTypeSuffix(AdvanceWhileIn(AdvanceN(lx, 2), {"0", "1", "_"}))
             IN  Ret(l, NewTokenFromText("NUMBER_BINARY", l, start))
        ELSE IF c = "0" /\ p = "o"
        THEN LET l == ReadTypeSuffix(AdvanceWhileIn(AdvanceN(lx, 2),
                          {"0","1","2","3","4","5","6","7","_"}))
             IN  Ret(l, NewTokenFromText("NUMBER_OCTAL", l, start))
        ELSE IF c = "0" /\ p = "x"
        THEN LET l == ReadTypeSuffix(AdvanceWhileIn(AdvanceN(lx, 2),
                          Digit \cup {"a","b","c","d","e","f","A","B","C","D","E","F","_"}))
             IN  Ret(l, NewTokenFromText("NUMBER_HEX", l, start))
        ELSE LET li == AdvanceWhileIn(lx, Digit \cup {"_"})
             IN  IF CurrentChar(li) = "." /\ IsDigit(PeekChar(li, 1))
                 THEN LET l == ReadTypeSuffix(AdvanceWhileIn(AdvanceLexer(li), Digit))
                      IN  Ret(l, NewTokenFromText("NUMBER_FLOAT", l, start))
                 ELSE LET l == ReadTypeSuffix(li)
                      IN  Ret(l, NewTokenFromText("NUMBER", l, start))

ReadComment(lx) ==
    LET start == lx.position
        l == AdvanceUntilIn(AdvanceN(lx, 2), {NL})
    IN  Ret(l, NewTokenFromText("COMMENT", l, start))

\* The body of read_string's loop: a backslash skips itself and one more byte.
RECURSIVE ReadStringLoop(_, _)
ReadStringLoop(lx, quote) ==
    IF CurrentChar(lx) \in {quote, NUL} THEN lx
    ELSE IF CurrentChar(lx) = BSLASH THEN ReadStringLoop(AdvanceN(lx, 2), quote)
    ELSE ReadStringLoop(AdvanceLexer(lx), quote)

ReadString(lx, quote) ==
    LET start == lx.position
        l1 == ReadStringLoop(AdvanceLexer(lx), quote)
        l2 == IF CurrentChar(l1) = quote THEN AdvanceLexer(l1) ELSE l1
    IN  Ret(l2, NewTokenFromText("STRING", l2, start))

RECURSIVE CountRun(_, _, _)
CountRun(lx, ch, pos) == IF PeekChar(lx, pos) = ch THEN CountRun(lx, ch, pos + 1) ELSE pos

CountBackticks(lx) == CountRun(lx, BTICK, 0)
CountOpenBraces(lx) == CountRun(lx, "{", 0)
CountCloseBraces(lx) == CountRun(lx, "}", 0)

ReadStringInterpolationStart(lx) ==
    LET backtick_count == CountBackticks(lx)
        l1 == AdvanceN(lx, backtick_count)
        l2 == IF CurrentChar(l1) = NL
              THEN [AdvanceLexer(l1) EXCEPT !.is_multiline_string = 1]
              ELSE [l1 EXCEPT !.is_multiline_string = 0]
        l3 == [l2 EXCEPT !.in_string_interpolation = backtick_count]
    IN  Ret(l3, NewTokenFromVal("STRING_I_START", l3, backtick_count))

\* Number of ' ' / '\t' bytes of source starting at index from.
RECURSIVE BlankRun(_, _)
BlankRun(lx, from) ==
    IF SourceAt(lx, from) \in {" ", TAB} THEN 1 + BlankRun(lx, from + 1) ELSE 0

HasClosingAt(lx, at, n) == \A i \in 0..(n - 1) : SourceAt(lx, at + i) = BTICK

\* As EndOfInterpolation, the multiline flag left as it was.
EndOfInterpolation_KeepingMultiline(lx, n) ==
    LET l == [AdvanceN(lx, n) EXCEPT !.in_string_interpolation = 0]
    IN  Ret(l, NewTokenFromVal("STRING_I_END", l, n))

\* The closing run: consume n backticks, leave the string, return STRING_I_END.
EndOfInterpolation(lx, n) ==
    LET l == [AdvanceN(lx, n) EXCEPT !.in_string_interpolation = 0, !.is_multiline_string = 0]
    IN  Ret(l, NewTokenFromVal("STRING_I_END", l, n))

\* The content loop of read_string_interpolation_content, from `while` to the end.
RECURSIVE ContentLoop(_, _)
ContentLoop(lx, start) ==
    LET n == lx.in_string_interpolation
        c == CurrentChar(lx)
        tail == IF lx.position > start
                THEN Ret(lx, NewTokenFromText("STRING_I", lx, start))
                ELSE Ret(lx, NewToken("UNKNOWN", lx))
    IN  IF c = NUL THEN tail
        ELSE IF CountBackticks(lx) >= n
        THEN tail   \* content before the backticks, or break with nothing read
        ELSE IF CountOpenBraces(lx) >= n
        THEN IF lx.position > start
             THEN Ret(lx, NewTokenFromText("STRING_I", lx, start))
             ELSE Hang(lx)   \* calls itself again in the same state, without end
        ELSE IF c = BSLASH
        THEN LET l1 == AdvanceLexer(lx)
             IN  ContentLoop(IF CurrentChar(l1) # NUL THEN AdvanceLexer(l1) ELSE l1, start)
        ELSE IF c = NL /\ lx.is_multiline_string = 1
        THEN LET look_pos == 1 + BlankRun(lx, lx.position + 1)
             IN  IF HasClosingAt(lx, lx.position + look_pos, n) /\ lx.position > start
                 THEN Ret(AdvanceLexer(lx), NewTokenFromText("STRING_I", lx, start))
                 ELSE ContentLoop(AdvanceLexer(lx), start)
        ELSE IF c = NL
        THEN tail   \* single-line string: break at the newline
        ELSE ContentLoop(AdvanceLexer(lx), start)

ReadStringInterpolationContent(lx) ==
    LET start == lx.position
        n == lx.in_string_interpolation
        temp_pos == BlankRun(lx, lx.position)
        has_closing == HasClosingAt(lx, lx.position + temp_pos, n)
    IN  IF lx.is_multiline_string = 1 /\ lx.column = 1 /\ has_closing /\ temp_pos > 0
        THEN LET l == AdvanceWhileIn(lx, {" ", TAB})
             IN  Ret(l, NewTokenFromText("STRING_I_INDENT", l, start))
        ELSE IF lx.is_multiline_string = 1 /\ lx.column = 1 /\ has_closing /\ temp_pos = 0
        THEN EndOfInterpolation(lx, n)
        ELSE IF CountBackticks(lx) >= n
        THEN EndOfInterpolation(lx, n)
        ELSE ContentLoop(lx, start)

IsEndOfDoc(lx) ==
    \/ /\ CurrentChar(lx) = NL
       /\ PeekChar(lx, 1) = "=" /\ PeekChar(lx, 2) = "=" /\ PeekChar(lx, 3) = "="
    \/ /\ CurrentChar(lx) = NL /\ PeekChar(lx, 1) = CR
       /\ PeekChar(lx, 2) = "=" /\ PeekChar(lx, 3) = "=" /\ PeekChar(lx, 4) = "="

\* while (!is_end_of_doc(lexer)) advance_lexer(lexer);  -- lx at the delimiter or at the end
RECURSIVE AdvanceToEndOfDoc(_)
AdvanceToEndOfDoc(lx) ==
    IF IsEndOfDoc(lx) \/ lx.position >= Len(lx.source) THEN lx
    ELSE AdvanceToEndOfDoc(AdvanceLexer(lx))

\* read_doc has three loops that test only for '\n' (or the closing line), none for
\* the end of the source: advance_lexer stops moving there and the loop spins.
ReadDoc(lx) ==
    LET start == lx.position
        l1 == AdvanceUntilIn(lx, {NL})
        l2 == AdvanceToEndOfDoc(l1)
        l3 == AdvanceUntilIn(AdvanceLexer(l2), {NL})
    IN  IF CurrentChar(l1) # NL THEN Hang(l1)
        ELSE IF ~IsEndOfDoc(l2) THEN Hang(l2)
        ELSE IF CurrentChar(l3) # NL THEN Hang(l3)
        ELSE Ret(l3, NewTokenFromText("DOCUMENTATION", l3, start))

SingleCharType(c) ==
    CASE c = ":" -> "COLON"      [] c = ";" -> "SEMICOLON"
      [] c = "," -> "COMMA"      [] c = "." -> "DOT"
      [] c = "|" -> "PIPE"       [] c = "*" -> "STAR"
      [] c = "(" -> "LPAREN"     [] c = ")" -> "RPAREN"
      [] c = "{" -> "LBRACE"     [] c = "}" -> "RBRACE"
      [] c = "[" -> "LBRACKET"   [] c = "]" -> "RBRACKET"
      [] c = "<" -> "LANGLE"     [] c = ">" -> "RANGLE"
      [] c = "+" -> "PLUS"       [] c = "-" -> "MINUS"
      [] OTHER -> "none"

\* next_token from skip_whitespace on (line 616).  The final switch has no default:
\* for a byte that starts no token the Token returned is never assigned.  Its kind
\* is written UNINITIALIZED here; whoever reads it sees an arbitrary kind.
NormalToken(lx0) ==
    LET lx == SkipWhitespace(lx0)
        c == CurrentChar(lx)
    IN  IF lx.position >= Len(lx.source) THEN Ret(lx, NewToken("EOF", lx))
        ELSE IF c = NL THEN Ret(AdvanceLexer(lx), NewToken("NEWLINE", lx))
        ELSE IF c = "/" /\ PeekChar(lx, 1) = "/" THEN ReadComment(lx)
        ELSE IF c = "_" /\ ~IsAlpha(PeekChar(lx, 1))
        THEN Ret(AdvanceLexer(lx), NewToken("UNDERSCORE", lx))
        ELSE IF IsIdentifierStart(c) THEN ReadIdentifierOrKeyword(lx)
        ELSE IF IsDigit(c) THEN ReadNumber(lx)
        ELSE IF c \in {DQUOTE, SQUOTE} THEN ReadString(lx, c)
        ELSE IF c = BTICK THEN ReadStringInterpolationStart(lx)
        ELSE IF c = "=" /\ PeekChar(lx, 1) = "=" /\ PeekChar(lx, 2) = "=" /\ PeekChar(lx, 3) = "="
        THEN ReadDoc(lx)
        ELSE IF SingleCharType(c) # "none"
        THEN Ret(AdvanceLexer(lx), NewToken(SingleCharType(c), lx))
        ELSE Ret(AdvanceLexer(lx), NewToken("UNINITIALIZED", lx))

NextToken(lx0) ==
    IF lx0.in_string_interpolation > 0
    THEN IF lx0.brace_depth > 0
         THEN LET lx == SkipWhitespace(lx0)
                  c == CurrentChar(lx)
                  n == lx.in_string_interpolation
              IN  IF lx.position >= Len(lx.source) THEN Ret(lx, NewToken("EOF", lx))
                  ELSE IF CountCloseBraces(lx) >= n /\ lx.brace_depth = 1
                  THEN LET l == [AdvanceN(lx, n) EXCEPT !.brace_depth = 0]
                       IN  Ret(l, NewToken("STRING_I_EXPR_END", l))
                  ELSE IF c = "}"
                  THEN LET l == [lx EXCEPT !.brace_depth = @ - 1]
                       IN  Ret(AdvanceLexer(l), NewToken("RBRACE", l))
                  ELSE IF c = "{"
                  THEN LET l == [lx EXCEPT !.brace_depth = @ + 1]
                       IN  Ret(AdvanceLexer(l), NewToken("LBRACE", l))
                  ELSE NormalToken(lx)
         ELSE IF CountOpenBraces(lx0) >= lx0.in_string_interpolation
              THEN LET l == [AdvanceN(lx0, lx0.in_string_interpolation) EXCEPT !.brace_depth = 1]
                   IN  Ret(l, NewToken("STRING_I_EXPR_START", l))
              ELSE ReadStringInterpolationContent(lx0)
    ELSE NormalToken(lx0)

NoToken == [type |-> "UNKNOWN", text |-> NoText, line |-> 0, column |-> 0]

\* create_lexer: a lexer at the start of source with one token of lookahead read.
NewLexer(source) ==
    [source |-> source, position |-> 0, line |-> 1, column |-> 1,
     in_string_interpolation |-> 0, is_multiline_string |-> 0, brace_depth |-> 0,
     current_token |-> NoToken, hung |-> FALSE, ahead |-> <<>>]

\* lexer->current_token = next_token(lexer), as in create_lexer, advance and print_tokens.
ReadToken(lx) ==
    LET r == NextToken(lx)
    IN  [r.lx EXCEPT !.current_token = r.tok, !.hung = r.hung]

\* next_token is a function of the lexer alone, so the states the lexer will go
\* through under further calls are fixed when it is created: LexRun lists them, up
\* to the call that never returns or that leaves the lexer as it found it (at EOF,
\* or stuck on a token it cannot get past, every later call does the same).
RECURSIVE LexRun(_)
LexRun(lx) ==
    LET next == ReadToken(lx)
    IN  IF lx.hung \/ next = lx THEN <<>> ELSE <<next>> \o LexRun(next)

\* create_lexer, with the run ahead computed once for the parser's advance.
CreateLexer(source) ==
    LET first == ReadToken(NewLexer(source))
    IN  [first EXCEPT !.ahead = LexRun(first)]

\* lexer->current_token = next_token(lexer) on a lexer made by CreateLexer.
NextLexer(lx) ==
    IF lx.ahead = <<>> THEN lx ELSE [Head(lx.ahead) EXCEPT !.ahead = Tail(lx.ahead)]

(***************************************************************************)
(* Parse tree (src/src/parse_tree.c)                                       *)
(***************************************************************************)
Node(t, i) == t[i + 1]

CreateNonterminalNode(type) ==
    [type |-> type, token |-> NoToken, first_child |-> -1, next_sibling |-> -1,
     parent |-> -1, leading_newlines |-> 0]

CreateTerminalNode(type, token) ==
    [type |-> type, token |-> token, first_child |-> -1, next_sibling |-> -1,
     parent |-> -1, leading_newlines |-> 0]

\* The last node of the sibling list that starts at idx.
RECURSIVE LastSibling(_, _)
LastSibling(t, idx) ==
    IF Node(t, idx).next_sibling = -1 THEN idx ELSE LastSibling(t, Node(t, idx).next_sibling)

AddChild(t, parent_idx, child_idx) ==
    IF parent_idx < 0 \/ child_idx < 0 \/ parent_idx >= Len(t) \/ child_idx >= Len(t)
    THEN t
    ELSE LET t1 == [t EXCEPT ![child_idx + 1].parent = parent_idx]
         IN  IF Node(t1, parent_idx).first_child = -1
             THEN [t1 EXCEPT ![parent_idx + 1].first_child = child_idx]
             ELSE [t1 EXCEPT ![LastSibling(t1, Node(t1, parent_idx).first_child) + 1].next_sibling
                                 = child_idx]

\* The children of node idx, first to last.
RECURSIVE SiblingsFrom(_, _)
SiblingsFrom(t, idx) ==
    IF idx = -1 THEN <<>> ELSE <<idx>> \o SiblingsFrom(t, Node(t, idx).next_sibling)

Children(t, idx) == SiblingsFrom(t, Node(t, idx).first_child)

(***************************************************************************)
(* Parser (src/src/parser.c).  P holds the parser's parts: its lexer, the  *)
(* tree's nodes, the frame stack, the error list, and the history of the   *)
(* tokens advanced over.                                                   *)
(***************************************************************************)
Cur(P) == P.lexer.current_token

MatchToken(P, type) == Cur(P).type = type

\* advance(parser); by records which code consumed the token (history only).
Advance(P, by) ==
    [P EXCEPT !.lexer = NextLexer(@), !.consumed = Append(@, [tok |-> Cur(P), by |-> by])]

Frame(state, parent_idx, current_idx, step) ==
    [state |-> state, parent_node_idx |-> parent_idx, current_node_idx |-> current_idx,
     precedence |-> 0, step |-> step]

PushNewFrame(P, state, parent_idx, current_idx, step) ==
    [P EXCEPT !.stack = Append(@, Frame(state, parent_idx, current_idx, step))]

\* add_node followed by add_child(parent_idx, new index); the new index is Len(P.tree).
AddNodeUnder(P, node, parent_idx) ==
    [P EXCEPT !.tree = AddChild(Append(@, node), parent_idx, Len(@))]

ReportSyntaxError(P, message) ==
    [P EXCEPT !.errors = Append(@, [line |-> Cur(P).line, column |-> Cur(P).column,
                                   message |-> message])]

\* skip_to_newline that skips nothing.
SkipToNewline_None(P) == P

\* skip_to_newline never returns when the lexer is stuck on a token that is neither
\* NEWLINE nor EOF (next_token hands it out again and again): hung.
RECURSIVE SkipToNewline(_)
SkipToNewline(P) ==
    IF MatchToken(P, "EOF") \/ MatchToken(P, "NEWLINE") \/ P.lexer.hung THEN P
    ELSE IF P.lexer.ahead = <<>> THEN [P EXCEPT !.lexer.hung = TRUE]
    ELSE SkipToNewline(Advance(P, "skip"))

NewError(P, parent_node_idx, message) ==
    PushNewFrame(SkipToNewline(ReportSyntaxError(P, message)),
                 "PARSE", parent_node_idx, parent_node_idx, 0)

IsTriviaToken(P) == MatchToken(P, "COMMENT") \/ MatchToken(P, "NEWLINE")

\* One COMMENT/NEWLINE token made a node under parent_idx and advanced over.
TakeTrivia(P, parent_idx) ==
    Advance(AddNodeUnder(P, CreateTerminalNode(
                IF MatchToken(P, "COMMENT") THEN "COMMENT" ELSE "NEWLINE", Cur(P)), parent_idx),
            "trivia")

RECURSIVE TriviaLoop(_, _)
TriviaLoop(P, parent_idx) ==
    IF IsTriviaToken(P) THEN TriviaLoop(TakeTrivia(P, parent_idx), parent_idx) ELSE P

\* ----- operator precedence
PREC_NONE == 0
PREC_PIPELINE == 1
PREC_OR == 2
PREC_AND == 3
PREC_COMPOSE == 4
PREC_UNARY == 5
PREC_MEMBER == 6

GetOperatorPrecedence(type) ==
    CASE type = "PIPE" -> PREC_PIPELINE
      [] type = "OR" -> PREC_OR
      [] type = "AND" -> PREC_AND
      [] type = "PLUS" -> PREC_COMPOSE
      [] type = "DOT" -> PREC_MEMBER
      [] type \in {"NOT", "MINUS"} -> PREC_UNARY
      [] OTHER -> PREC_NONE

IsBinaryOperator(type) == type \in {"PIPE", "OR", "AND", "PLUS"}

IsUnaryOperator(type) == type \in {"MINUS", "NOT"}

GetUnaryNodeType(op) ==
    CASE op = "NOT" -> "NOT_EXPR" [] op = "MINUS" -> "NEGATE_EXPR" [] OTHER -> "IDENTIFIER"

GetBinaryNodeType(op) ==
    CASE op = "AND" -> "AND_EXPR" [] op = "OR" -> "OR_EXPR" [] op = "PLUS" -> "PLUS_EXPR"
      [] op = "PIPE" -> "PIPE_EXPR" [] OTHER -> "IDENTIFIER"

\* should_pop with '>' for every operator: binary operators right-associative.
ShouldPop_RightAssociative(current, top) ==
    GetOperatorPrecedence(top) > GetOperatorPrecedence(current)

\* should_pop of infix_to_postfix: current is the operator read, top the stack's top.
ShouldPop(current, top) ==
    IF IsUnaryOperator(current)
    THEN GetOperatorPrecedence(top) > GetOperatorPrecedence(current)
    ELSE GetOperatorPrecedence(top) >= GetOperatorPrecedence(current)

\* The inner while of infix_to_postfix: pops operators to the output.
RECURSIVE PopOperators(_, _, _)
PopOperators(current, output, ops) ==
    IF Len(ops) > 0 /\ ShouldPop(current, ops[Len(ops)].type)
    THEN PopOperators(current, Append(output, ops[Len(ops)]), SubSeq(ops, 1, Len(ops) - 1))
    ELSE [output |-> output, ops |-> ops]

\* "Pop remaining operators": the stack emptied onto the output, top first.
RECURSIVE DrainOperators(_, _)
DrainOperators(output, ops) ==
    IF Len(ops) = 0 THEN output
    ELSE DrainOperators(Append(output, ops[Len(ops)]), SubSeq(ops, 1, Len(ops) - 1))

IsExprTerminator(type) == type \in {"EOF", "NEWLINE", "COMMA", "RPAREN", "RBRACE"}

IsOperandToken(type) == type \in {"TRUE", "FALSE", "STRING", "IDENTIFIER"}

\* infix_to_postfix: the parser after the tokens read, and the postfix array.
RECURSIVE InfixLoop(_, _, _)
InfixLoop(P, output, ops) ==
    LET current == Cur(P)
    IN  IF IsExprTerminator(current.type) THEN [P |-> P, output |-> DrainOperators(output, ops)]
        ELSE IF IsOperandToken(current.type)
        THEN InfixLoop(Advance(P, "expr"), Append(output, current), ops)
        ELSE IF IsUnaryOperator(current.type) \/ IsBinaryOperator(current.type)
        THEN LET r == PopOperators(current.type, output, ops)
             IN  InfixLoop(Advance(P, "expr"), r.output, Append(r.ops, current))
        ELSE [P |-> P, output |-> DrainOperators(output, ops)]

InfixToPostfix(P) == InfixLoop(P, <<>>, <<>>)

OperandNodeType(type) ==
    CASE type \in {"TRUE", "FALSE"} -> "BOOLEAN_LITERAL"
      [] type = "STRING" -> "STRING_LITERAL"
      [] type = "IDENTIFIER" -> "IDENTIFIER"
      [] OTHER -> "none"

\* The for loop of build_expr_tree_from_postfix from token i on; ok = FALSE is the
\* early "return -1".  t is the tree, ns the node stack.
RECURSIVE BuildLoop(_, _, _, _)
BuildLoop(t, postfix, i, ns) ==
    IF i > Len(postfix) THEN [t |-> t, ns |-> ns, ok |-> TRUE]
    ELSE LET token == postfix[i]
             n == Len(ns)
         IN  IF IsUnaryOperator(token.type)
             THEN IF n < 1 THEN [t |-> t, ns |-> ns, ok |-> FALSE]
                  ELSE LET unary_idx == Len(t)
                           t1 == Append(t, CreateNonterminalNode(GetUnaryNodeType(token.type)))
                           t2 == AddChild(t1, unary_idx, ns[n])
                       IN  BuildLoop(t2, postfix, i + 1, Append(SubSeq(ns, 1, n - 1), unary_idx))
             ELSE IF IsBinaryOperator(token.type)
             THEN IF n < 2 THEN [t |-> t, ns |-> ns, ok |-> FALSE]
                  ELSE LET right_idx == ns[n]
                           left_idx == ns[n - 1]
                           binary_idx == Len(t)
                           t1 == Append(t, CreateNonterminalNode(GetBinaryNodeType(token.type)))
                           t2 == AddChild(AddChild(t1, binary_idx, left_idx), binary_idx, right_idx)
                       IN  BuildLoop(t2, postfix, i + 1, Append(SubSeq(ns, 1, n - 2), binary_idx))
             ELSE IF OperandNodeType(token.type) # "none"
             THEN BuildLoop(Append(t, CreateTerminalNode(OperandNodeType(token.type), token)),
                            postfix, i + 1, Append(ns, Len(t)))
             ELSE BuildLoop(t, postfix, i + 1, ns)

\* build_expr_tree_from_postfix: the tree after the call and the index returned.
BuildExprTreeFromPostfix(t, postfix, parent_idx) ==
    LET r == BuildLoop(t, postfix, 1, <<>>)
    IN  IF ~r.ok \/ Len(r.ns) # 1 THEN [t |-> r.t, idx |-> -1]
        ELSE [t |-> AddChild(r.t, parent_idx, r.ns[1]), idx |-> r.ns[1]]

\* ----- the cases of parse()'s switch: P is the parser after pop_frame, frame the
\* frame popped; the value is the parser when the case reaches its break.

\* A nonterminal of kind type under parent_idx with the identifier token as its
\* first child (the new node's index is Len(P.tree)).
HeadedNode(P, type, id_token, parent_idx) ==
    AddNodeUnder(AddNodeUnder(P, CreateNonterminalNode(type), parent_idx),
                 CreateTerminalNode("IDENTIFIER", id_token), Len(P.tree))

\* A terminal node for the current token under parent_idx, then advance.
TakeTerminal(P, type, parent_idx, by) ==
    Advance(AddNodeUnder(P, CreateTerminalNode(type, Cur(P)), parent_idx), by)

PARSE(P0, frame) ==
    LET parent == frame.parent_node_idx
        P == TriviaLoop(P0, parent)
    IN  IF MatchToken(P, "EOF") THEN P
        ELSE IF MatchToken(P, "IDENTIFIER")
        THEN PushNewFrame(PushNewFrame(P, "PARSE", parent, parent, 0),
                          "PARSE_STATEMENT", parent, -1, 0)
        ELSE NewError(P, parent, "Expected function declaration")

PARSE_STATEMENT(P, frame) ==
    LET parent == frame.parent_node_idx
        id_token == Cur(P)
        P1 == Advance(P, "statement")
        P2 == Advance(P1, "statement")
    IN  IF ~MatchToken(P, "IDENTIFIER") THEN NewError(P, parent, "Expected identifier")
        ELSE IF MatchToken(P1, "COLON")
        THEN IF MatchToken(P2, "LPAREN")
             THEN PushNewFrame(HeadedNode(P2, "FUNCTION_DECL", id_token, parent),
                               "PARSE_FUNCTION_DECL", Len(P2.tree), Len(P2.tree), 0)
             ELSE PushNewFrame(HeadedNode(P2, "VAR_DECL", id_token, parent),
                               "PARSE_VAR_DECL", Len(P2.tree), Len(P2.tree), 0)
        ELSE IF MatchToken(P1, "LPAREN")
        THEN PushNewFrame(HeadedNode(P1, "CALL_EXPR", id_token, parent),
                          "PARSE_CALL_ARGS", Len(P1.tree), -1, 0)
        ELSE NewError(P1, parent, "Expected ':' or '(' after identifier")

PARSE_FUNCTION_DECL(P, frame) ==
    LET func_idx == frame.current_node_idx
    IN  IF func_idx = -1
        THEN NewError(P, frame.parent_node_idx, "Invalid function declaration state")
        ELSE PushNewFrame(PushNewFrame(P, "PARSE_BLOCK", func_idx, -1, 0),
                          "PARSE_PARAM_LIST", func_idx, -1, 0)

PARSE_VAR_DECL(P, frame) ==
    LET var_idx == frame.current_node_idx
    IN  IF var_idx = -1
        THEN NewError(P, frame.parent_node_idx, "Invalid variable declaration state")
        ELSE PushNewFrame(P, "PARSE_EXPRESSION", var_idx, -1, 0)

PARSE_PARAM_LIST(P0, frame) ==
    LET param_list_idx == Len(P0.tree)
        P1 == AddNodeUnder(P0, CreateNonterminalNode("PARAM_LIST"), frame.parent_node_idx)
        P2 == TriviaLoop(Advance(P1, "params"), param_list_idx)
    IN  IF ~MatchToken(P1, "LPAREN")
        THEN NewError(P1, param_list_idx, "Expected '(' for parameter list")
        ELSE IF MatchToken(P2, "RPAREN") THEN Advance(P2, "params")
        ELSE NewError(P2, param_list_idx, "Expected ')' after parameter list")

PARSE_BLOCK(P0, frame) ==
    LET first == frame.current_node_idx = -1
        block_idx == IF first THEN Len(P0.tree) ELSE frame.current_node_idx
        P1 == IF first
              THEN AddNodeUnder(P0, CreateNonterminalNode("BLOCK"), frame.parent_node_idx)
              ELSE P0
        P2 == TriviaLoop(IF first THEN Advance(P1, "block") ELSE P1, block_idx)
        P3 == NewError(P2, block_idx, "Unexpected token in block")
    IN  IF first /\ ~MatchToken(P1, "LBRACE")
        THEN NewError(P1, block_idx, "Expected '{' for block")
        ELSE IF MatchToken(P2, "RBRACE") THEN Advance(P2, "block")
        ELSE IF MatchToken(P2, "EOF")
        THEN NewError(P2, block_idx, "Expected '}' at end of block")
        ELSE IF MatchToken(P2, "MATCH")
        THEN PushNewFrame(PushNewFrame(P2, "PARSE_BLOCK", frame.parent_node_idx, block_idx, 0),
                          "PARSE_MATCH_STMT", block_idx, -1, 0)
        ELSE IF MatchToken(P2, "IDENTIFIER")
        THEN PushNewFrame(PushNewFrame(P2, "PARSE_BLOCK", frame.parent_node_idx, block_idx, 0),
                          "PARSE_STATEMENT", block_idx, -1, 0)
        \* unknown token: after the skip the token is NEWLINE ("will resume later") or
        \* EOF, which falls through to the check for '}'
        ELSE IF MatchToken(P3, "EOF")
        THEN NewError(P3, block_idx, "Expected '}' at end of block")
        ELSE P3

PARSE_EXPRESSION(P, frame) ==
    LET parent == frame.parent_node_idx
        r == InfixToPostfix(P)
        b == BuildExprTreeFromPostfix(r.P.tree, r.output, parent)
        P1 == [r.P EXCEPT !.tree = b.t]
    IN  IF MatchToken(P, "MATCH") THEN PushNewFrame(P, "PARSE_MATCH_EXPR", parent, -1, 0)
        ELSE IF b.idx = -1 THEN NewError(P1, parent, "Invalid expression")
        ELSE P1

\* The while loop of PARSE_CALL_ARGS.
RECURSIVE ArgsLoop(_, _)
ArgsLoop(P, arg_list_idx) ==
    IF MatchToken(P, "RPAREN") \/ MatchToken(P, "EOF") THEN P
    ELSE IF IsTriviaToken(P) THEN ArgsLoop(TakeTrivia(P, arg_list_idx), arg_list_idx)
    ELSE IF MatchToken(P, "COMMA") THEN ArgsLoop(Advance(P, "args"), arg_list_idx)
    ELSE IF MatchToken(P, "STRING")
    THEN ArgsLoop(TakeTerminal(P, "STRING_LITERAL", arg_list_idx, "args"), arg_list_idx)
    ELSE IF MatchToken(P, "TRUE") \/ MatchToken(P, "FALSE")
    THEN ArgsLoop(TakeTerminal(P, "BOOLEAN_LITERAL", arg_list_idx, "args"), arg_list_idx)
    ELSE IF MatchToken(P, "IDENTIFIER")
    THEN ArgsLoop(TakeTerminal(P, "IDENTIFIER", arg_list_idx, "args"), arg_list_idx)
    ELSE NewError(P, arg_list_idx, "Expected argument expression")

PARSE_CALL_ARGS(P0, frame) ==
    LET first == frame.current_node_idx = -1
        arg_list_idx == IF first THEN Len(P0.tree) ELSE frame.current_node_idx
        P1 == IF first
              THEN AddNodeUnder(P0, CreateNonterminalNode("ARG_LIST"), frame.parent_node_idx)
              ELSE P0
        P2 == ArgsLoop(IF first THEN Advance(P1, "args") ELSE P1, arg_list_idx)
    IN  IF first /\ ~MatchToken(P1, "LPAREN")
        THEN NewError(P1, arg_list_idx, "Expected '(' for argument list")
        ELSE IF ~MatchToken(P2, "RPAREN")
        THEN NewError(P2, arg_list_idx, "Expected ')' after arguments")
        ELSE Advance(P2, "args")

\* "Check if we're done parsing arms": runs after the arms loop however it was left.
CloseMatch(P) == IF MatchToken(P, "RBRACE") THEN Advance(P, "match") ELSE P

PARSE_MATCH_EXPR(P, frame) ==
    LET parent == frame.parent_node_idx
        \* step 0
        match_new == Len(P.tree) 
        S1 == AddNodeUnder(Advance(P, "match"), CreateNonterminalNode("MATCH_EXPR"), parent)
        subject_type == OperandNodeType(Cur(S1).type)
        S2 == TakeTerminal(S1, subject_type, match_new, "match")
        \* step 1
        match_idx == frame.current_node_idx
        A1 == TriviaLoop(P, match_idx)
        arm_idx == Len(A1.tree)
        A2 == AddNodeUnder(A1, CreateNonterminalNode("MATCH_ARM"), match_idx)
        pattern_type == CASE Cur(A2).type \in {"TRUE", "FALSE"} -> "BOOLEAN_LITERAL"
                          [] Cur(A2).type = "STRING" -> "STRING_LITERAL"
                          [] Cur(A2).type = "UNDERSCORE" -> "MATCH_WILDCARD"
                          [] OTHER -> "none"
        A3 == TakeTerminal(A2, pattern_type, arm_idx, "match")
    IN  IF frame.step = 0
        THEN IF ~MatchToken(P, "MATCH") THEN NewError(P, parent, "Expected 'match' keyword")
             ELSE IF subject_type = "none"
             THEN NewError(S1, match_new, "Expected expression after 'match'")
             ELSE IF ~MatchToken(S2, "LBRACE")
             THEN NewError(S2, match_new, "Expected '{' after match subject")
             ELSE PushNewFrame(Advance(S2, "match"), "PARSE_MATCH_EXPR", match_new, match_new, 1)
        ELSE IF frame.step = 1
        THEN IF MatchToken(A1, "RBRACE") \/ MatchToken(A1, "EOF") THEN CloseMatch(A1)
             ELSE IF pattern_type = "none"
             THEN CloseMatch(NewError(A2, arm_idx, "Expected pattern (boolean, string, or '_')"))
             ELSE IF ~MatchToken(A3, "COLON")
             THEN CloseMatch(NewError(A3, arm_idx, "Expected ':' after pattern"))
             ELSE CloseMatch(PushNewFrame(PushNewFrame(Advance(A3, "match"),
                                 "PARSE_MATCH_EXPR", match_idx, match_idx, 1),
                                 "PARSE_EXPRESSION", arm_idx, -1, 0))
        ELSE P

PARSE_MATCH_STMT(P, frame) ==
    LET parent == frame.parent_node_idx
        match_new == Len(P.tree)
        S1 == AddNodeUnder(Advance(P, "match"), CreateNonterminalNode("MATCH_STMT"), parent)
        match_idx == frame.current_node_idx
        A1 == TriviaLoop(P, match_idx)
        arm_idx == Len(A1.tree)
        A2 == AddNodeUnder(A1, CreateNonterminalNode("MATCH_ARM"), match_idx)
        pattern_type == CASE Cur(A2).type = "IDENTIFIER" -> "IDENTIFIER"
                          [] Cur(A2).type = "STRING" -> "STRING_LITERAL"
                          [] Cur(A2).type \in {"TRUE", "FALSE"} -> "BOOLEAN_LITERAL"
                          [] Cur(A2).type = "UNDERSCORE" -> "MATCH_WILDCARD"
                          [] OTHER -> "none"
        A3 == TakeTerminal(A2, pattern_type, arm_idx, "match")
    IN  IF frame.step = 0
        THEN IF ~MatchToken(P, "MATCH") THEN NewError(P, parent, "Expected 'match' keyword")
             ELSE PushNewFrame(PushNewFrame(S1, "PARSE_MATCH_STMT", match_new, match_new, 1),
                               "PARSE_EXPRESSION", match_new, -1, 0)
        ELSE IF frame.step = 1
        THEN IF ~MatchToken(P, "LBRACE")
             THEN NewError(P, match_idx, "Expected '{' after match subject")
             ELSE PushNewFrame(Advance(P, "match"), "PARSE_MATCH_STMT", match_idx, match_idx, 2)
        ELSE IF frame.step = 2
        THEN IF MatchToken(A1, "RBRACE") \/ MatchToken(A1, "EOF") THEN CloseMatch(A1)
             ELSE IF pattern_type = "none"
             THEN CloseMatch(NewError(A2, arm_idx, "Expected pattern in match arm"))
             ELSE IF ~MatchToken(A3, "COLON")
             THEN CloseMatch(NewError(A3, arm_idx, "Expected ':' after pattern"))
             ELSE CloseMatch(PushNewFrame(PushNewFrame(Advance(A3, "match"),
                                 "PARSE_MATCH_STMT", match_idx, match_idx, 2),
                                 "PARSE_STATEMENT", arm_idx, -1, 0))
        ELSE P

\* One iteration of parse()'s main loop on a non-empty stack: pop_frame, then the
\* switch on the state of the frame popped.
PopFrame(P) == [P EXCEPT !.stack = SubSeq(@, 1, Len(@) - 1)]

ParseIteration(P) ==
    LET frame == P.stack[Len(P.stack)]
        Q == PopFrame(P)
    IN  CASE frame.state = "PARSE" -> PARSE(Q, frame)
          [] frame.state = "PARSE_STATEMENT" -> PARSE_STATEMENT(Q, frame)
          [] frame.state = "PARSE_FUNCTION_DECL" -> PARSE_FUNCTION_DECL(Q, frame)
          [] frame.state = "PARSE_VAR_DECL" -> PARSE_VAR_DECL(Q, frame)
          [] frame.state = "PARSE_PARAM_LIST" -> PARSE_PARAM_LIST(Q, frame)
          [] frame.state = "PARSE_BLOCK" -> PARSE_BLOCK(Q, frame)
          [] frame.state = "PARSE_EXPRESSION" -> PARSE_EXPRESSION(Q, frame)
          [] frame.state = "PARSE_CALL_ARGS" -> PARSE_CALL_ARGS(Q, frame)
          [] frame.state = "PARSE_MATCH_EXPR" -> PARSE_MATCH_EXPR(Q, frame)
          [] frame.state = "PARSE_MATCH_STMT" -> PARSE_MATCH_STMT(Q, frame)
          [] OTHER -> Q

\* create_parser and the head of parse(): the PROGRAM root and the first frame.
NewParser(lx) ==
    [lexer |-> lx, tree |-> <<CreateNonterminalNode("PROGRAM")>>,
     stack |-> <<Frame("PARSE", 0, 0, 0)>>, errors |-> <<>>, consumed |-> <<>>]

(***************************************************************************)
(* AST (src/src/ast.c) and its builder (src/src/ast_builder.c).  An AST    *)
(* node also records, as history, the parse node it was converted from.    *)
(***************************************************************************)
\* memset(&node, 0, ...): token kind 0 is TOKEN_EOF, text NULL.
ZeroToken == [type |-> "EOF", text |-> NoText, line |-> 0, column |-> 0]

MapNodeType(parse_type) ==
    CASE parse_type = "PROGRAM" -> "AST_PROGRAM"
      [] parse_type = "FUNCTION_DECL" -> "AST_FUNCTION_DECL"
      [] parse_type = "VAR_DECL" -> "AST_VAR_DECL"
      [] parse_type = "PARAM_LIST" -> "AST_PARAM_LIST"
      [] parse_type = "PARAM" -> "AST_PARAM"
      [] parse_type = "BLOCK" -> "AST_BLOCK"
      [] parse_type = "CALL_EXPR" -> "AST_CALL_EXPR"
      [] parse_type = "ARG_LIST" -> "AST_ARG_LIST"
      [] parse_type = "AND_EXPR" -> "AST_AND_EXPR"
      [] parse_type = "OR_EXPR" -> "AST_OR_EXPR"
      [] parse_type = "PLUS_EXPR" -> "AST_PLUS_EXPR"
      [] parse_type = "PIPE_EXPR" -> "AST_PIPE_EXPR"
      [] parse_type = "NOT_EXPR" -> "AST_NOT_EXPR"
      [] parse_type = "NEGATE_EXPR" -> "AST_NEGATE_EXPR"
      [] parse_type = "IDENTIFIER" -> "AST_IDENTIFIER"
      [] parse_type = "STRING_LITERAL" -> "AST_STRING_LITERAL"
      [] parse_type = "BOOLEAN_LITERAL" -> "AST_BOOLEAN_LITERAL"
      [] OTHER -> "none"

ShouldIncludeNode(type) == type # "COMMENT" /\ type # "NEWLINE"

CreateAstNonterminal(type) ==
    [type |-> type, token |-> ZeroToken, first_child |-> -1, next_sibling |-> -1,
     parent |-> -1, from |-> -1]

CreateAstTerminal(type, token) == [CreateAstNonterminal(type) EXCEPT !.token = token]

\* get_ast_node(ast, index) != NULL
HasAstNode(a, index) == index >= 0 /\ index < Len(a)

AddAstChild(a, parent_idx, child_idx) ==
    IF ~HasAstNode(a, parent_idx) \/ ~HasAstNode(a, child_idx) THEN a
    ELSE LET a1 == [a EXCEPT ![child_idx + 1].parent = parent_idx]
         IN  IF Node(a1, parent_idx).first_child = -1
             THEN [a1 EXCEPT ![parent_idx + 1].first_child = child_idx]
             ELSE [a1 EXCEPT ![LastSibling(a1, Node(a1, parent_idx).first_child) + 1].next_sibling
                                 = child_idx]

\* convert_node: the AST's nodes after the call and the index returned.
RECURSIVE ConvertNode(_, _, _)
RECURSIVE ConvertChildren(_, _, _, _)
\* convert_node without the should_include_node and map_node_type returns.
ConvertNode_Unfiltered(t, a, parse_node_idx) ==
    IF parse_node_idx < 0 \/ parse_node_idx >= Len(t) THEN [nodes |-> a, idx |-> -1]
    ELSE [nodes |-> ConvertChildren(t, Append(a, [CreateAstNonterminal(
                                                     MapNodeType(Node(t, parse_node_idx).type))
                                                     EXCEPT !.from = parse_node_idx]),
                                    Len(a), Node(t, parse_node_idx).first_child),
          idx |-> Len(a)]

ConvertNode(t, a, parse_node_idx) ==
    IF parse_node_idx < 0 \/ parse_node_idx >= Len(t) THEN [nodes |-> a, idx |-> -1]
    ELSE LET parse_node == Node(t, parse_node_idx)
             ast_type == MapNodeType(parse_node.type)
             ast_node == IF parse_node.type \in {"IDENTIFIER", "STRING_LITERAL", "BOOLEAN_LITERAL"}
                         THEN CreateAstTerminal(ast_type, parse_node.token)
                         ELSE CreateAstNonterminal(ast_type)
         IN  IF ~ShouldIncludeNode(parse_node.type) \/ ast_type = "none"
             THEN [nodes |-> a, idx |-> -1]
             ELSE [nodes |-> ConvertChildren(t, Append(a, [ast_node EXCEPT !.from = parse_node_idx]),
                                            Len(a), parse_node.first_child),
                   idx |-> Len(a)]

\* The while loop of convert_node over the children from child_idx on.
ConvertChildren(t, a, ast_node_idx, child_idx) ==
    IF child_idx < 0 \/ child_idx >= Len(t) THEN a
    ELSE LET r == ConvertNode(t, a, child_idx)
         IN  ConvertChildren(t, AddAstChild(r.nodes, ast_node_idx, r.idx), ast_node_idx,
                             Node(t, child_idx).next_sibling)

\* build_ast_from_parse_tree (the parse tree's root is node 0).
BuildAstFromParseTree(t) ==
    LET r == ConvertNode(t, <<>>, 0)
    IN  [nodes |-> r.nodes, root |-> r.idx]

NoAst == [nodes |-> <<>>, root |-> -1]

(***************************************************************************)
(* Interpreter (src/src/interpreter.c).  I is the interpreter: variables,  *)
(* the bytes written to stdout, the messages written to stderr.            *)
(***************************************************************************)
\* What a call hands back: the interpreter after it, the int returned, and for
\* evaluate_expression the out parameters.
Done(I) == [I |-> I, rc |-> 0, type |-> "none", string |-> NoText, bool |-> FALSE]

Error(I, message, name) ==
    [I |-> [I EXCEPT !.err = Append(@, [message |-> message, name |-> name])],
     rc |-> 1, type |-> "none", string |-> NoText, bool |-> FALSE]

Value(I, type, string, bool) == [I |-> I, rc |-> 0, type |-> type, string |-> string, bool |-> bool]

\* print_string's loop over s[0..len-1], s = the token text after its first byte.
RECURSIVE PrintStringLoop(_, _, _)
PrintStringLoop(s, i, len) ==
    IF i >= len THEN <<>>
    ELSE IF s[i + 1] = BSLASH /\ i + 1 < len
    THEN CASE s[i + 2] = "n" -> <<NL>> \o PrintStringLoop(s, i + 2, len)
           [] s[i + 2] = "t" -> <<TAB>> \o PrintStringLoop(s, i + 2, len)
           [] s[i + 2] = "r" -> <<CR>> \o PrintStringLoop(s, i + 2, len)
           [] s[i + 2] = BSLASH -> <<BSLASH>> \o PrintStringLoop(s, i + 2, len)
           [] s[i + 2] = DQUOTE -> <<DQUOTE>> \o PrintStringLoop(s, i + 2, len)
           [] OTHER -> <<s[i + 1]>> \o PrintStringLoop(s, i + 1, len)
    ELSE <<s[i + 1]>> \o PrintStringLoop(s, i + 1, len)

\* The mutant of PrintString: the bytes between the quotes written as they are.
PrintString_Raw(I, str) == [I EXCEPT !.out = @ \o SubSeq(str, 2, Len(str) - 1)]

PrintString(I, str) == [I EXCEPT !.out = @ \o PrintStringLoop(Tail(str), 0, Len(str) - 2)]

PrintBoolean(I, bool_value) ==
    [I EXCEPT !.out = @ \o (IF bool_value THEN <<"t","r","u","e">> ELSE <<"f","a","l","s","e">>)]

\* The index (1-based) of the variable called name, 0 when there is none.
LookupVariable(I, name) ==
    IF \E i \in 1..Len(I.variables) : I.variables[i].name = name
    THEN CHOOSE i \in 1..Len(I.variables) :
             /\ I.variables[i].name = name
             /\ \A j \in 1..(i - 1) : I.variables[j].name # name
    ELSE 0

\* The mutant of StoreVariable: a store that never looks for the name.
StoreVariable_AlwaysAppend(I, name, type, string_value, bool_value) ==
    [I EXCEPT !.variables = Append(@, [name |-> name, type |-> type,
                                       string_value |-> string_value, bool_value |-> bool_value])]

\* store_string_variable (type = VALUE_STRING) / store_boolean_variable: update in
\* place, or append.  string_value and bool_value are the members of one union:
\* writing one leaves nothing to read in the other.
StoreVariable(I, name, type, string_value, bool_value) ==
    LET var == [name |-> name, type |-> type,
                string_value |-> IF type = "VALUE_STRING" THEN string_value ELSE Indeterminate,
                bool_value |-> IF type = "VALUE_STRING" THEN Indeterminate ELSE bool_value]
        i == LookupVariable(I, name)
    IN  IF i # 0 THEN [I EXCEPT !.variables[i] = var]
        ELSE [I EXCEPT !.variables = Append(@, var)]

BoolOfToken(token) == token.type = "TRUE"

\* evaluate_expression
RECURSIVE EvaluateExpression(_, _, _)
RECURSIVE MatchArms(_, _, _, _)

\* AST_NOT_EXPR
EvaluateNot(a, I, node) ==
    IF node.first_child = -1 THEN Error(I, "NOT expression missing operand", NoText)
    ELSE LET operand == EvaluateExpression(a, I, node.first_child)
         IN  IF operand.rc # 0 THEN [operand EXCEPT !.rc = 1]
             ELSE IF operand.type # "VALUE_BOOLEAN"
             THEN Error(operand.I, "NOT operator requires boolean operand", NoText)
             ELSE Value(operand.I, "VALUE_BOOLEAN", NoText, ~operand.bool)

\* AND and OR that leave the right operand alone when the left one decides.
EvaluateBinary_ShortCircuit(a, I, node, op) ==
    LET left == EvaluateExpression(a, I, node.first_child)
        right == EvaluateExpression(a, left.I, Node(a, node.first_child).next_sibling)
    IN  IF left.rc # 0 THEN [left EXCEPT !.rc = 1]
        ELSE IF left.type # "VALUE_BOOLEAN"
        THEN Error(left.I, op \o " operator requires boolean operands", NoText)
        ELSE IF left.bool = (op = "OR") THEN Value(left.I, "VALUE_BOOLEAN", NoText, left.bool)
        ELSE IF right.rc # 0 THEN [right EXCEPT !.rc = 1]
        ELSE IF right.type # "VALUE_BOOLEAN"
        THEN Error(right.I, op \o " operator requires boolean operands", NoText)
        ELSE Value(right.I, "VALUE_BOOLEAN", NoText, right.bool)

\* AST_AND_EXPR (op = "AND") and AST_OR_EXPR (op = "OR"): the same code but for
\* the operator applied and the name in the messages.
EvaluateBinary(a, I, node, op) ==
    IF node.first_child = -1 THEN Error(I, op \o " expression missing operands", NoText)
    ELSE IF ~HasAstNode(a, node.first_child) \/ Node(a, node.first_child).next_sibling = -1
    THEN Error(I, op \o " expression missing right operand", NoText)
    ELSE LET left == EvaluateExpression(a, I, node.first_child)
         IN  IF left.rc # 0 THEN [left EXCEPT !.rc = 1]
             ELSE IF left.type # "VALUE_BOOLEAN"
             THEN Error(left.I, op \o " operator requires boolean operands", NoText)
             ELSE LET right == EvaluateExpression(a, left.I, Node(a, node.first_child).next_sibling)
                  IN  IF right.rc # 0 THEN [right EXCEPT !.rc = 1]
                      ELSE IF right.type # "VALUE_BOOLEAN"
                      THEN Error(right.I, op \o " operator requires boolean operands", NoText)
                      ELSE Value(right.I, "VALUE_BOOLEAN", NoText,
                                 IF op = "AND" THEN left.bool /\ right.bool
                                 ELSE left.bool \/ right.bool)

\* strncmp(s1, s2, n) == 0 on two buffers of at least n bytes: the comparison
\* ends at the first difference, at a NUL, or after n bytes.
RECURSIVE StrncmpEqual(_, _, _)
StrncmpEqual(s1, s2, n) ==
    IF n = 0 THEN TRUE
    ELSE IF Head(s1) # Head(s2) THEN FALSE
    ELSE IF Head(s1) = NUL THEN TRUE
    ELSE StrncmpEqual(Tail(s1), Tail(s2), n - 1)

\* The mutant of PatternMatches: string patterns compared without their quotes.
PatternMatches_WithoutQuotes(pattern, subject) ==
    \/ pattern.type = "AST_MATCH_WILDCARD"
    \/ /\ pattern.type = "AST_BOOLEAN_LITERAL"
       /\ subject.type = "VALUE_BOOLEAN"
       /\ BoolOfToken(pattern.token) = subject.bool
    \/ /\ pattern.type = "AST_STRING_LITERAL"
       /\ subject.type = "VALUE_STRING"
       /\ SubSeq(pattern.token.text, 2, Len(pattern.token.text) - 1)
              = SubSeq(subject.string, 2, Len(subject.string) - 1)

\* AST_MATCH_EXPR: "Check if pattern matches".
PatternMatches(pattern, subject) ==
    \/ pattern.type = "AST_MATCH_WILDCARD"
    \/ /\ pattern.type = "AST_BOOLEAN_LITERAL"
       /\ subject.type = "VALUE_BOOLEAN"
       /\ BoolOfToken(pattern.token) = subject.bool
    \/ /\ pattern.type = "AST_STRING_LITERAL"
       /\ subject.type = "VALUE_STRING"
       /\ pattern.token.text # NoText /\ subject.string # NoText
       /\ Len(pattern.token.text) = Len(subject.string)
       /\ StrncmpEqual(pattern.token.text, subject.string, Len(pattern.token.text))

\* AST_MATCH_EXPR: the loop over the arms from arm_idx on.
MatchArms(a, I, subject, arm_idx) ==
    IF arm_idx = -1 THEN Error(I, "No matching pattern in match expression", NoText)
    ELSE IF ~HasAstNode(a, arm_idx) \/ Node(a, arm_idx).type # "AST_MATCH_ARM"
    THEN Error(I, "Invalid MATCH arm", NoText)
    ELSE IF Node(a, arm_idx).first_child = -1 THEN Error(I, "MATCH arm missing pattern", NoText)
    ELSE IF ~HasAstNode(a, Node(a, arm_idx).first_child) THEN Error(I, "Invalid pattern node", NoText)
    ELSE LET pattern == Node(a, Node(a, arm_idx).first_child)
         IN  IF PatternMatches(pattern, subject)
             THEN IF pattern.next_sibling = -1 THEN Error(I, "MATCH arm missing expression", NoText)
                  ELSE EvaluateExpression(a, I, pattern.next_sibling)
             ELSE MatchArms(a, I, subject, Node(a, arm_idx).next_sibling)

EvaluateMatch(a, I, node) ==
    IF node.first_child = -1 THEN Error(I, "MATCH expression missing subject", NoText)
    ELSE LET subject == EvaluateExpression(a, I, node.first_child)
         IN  IF subject.rc # 0 THEN [subject EXCEPT !.rc = 1]
             ELSE MatchArms(a, subject.I, subject, Node(a, node.first_child).next_sibling)

EvaluateIdentifier(I, node) ==
    LET i == LookupVariable(I, node.token.text)
    IN  IF i = 0 THEN Error(I, "Undefined variable", node.token.text)
        ELSE Value(I, I.variables[i].type, I.variables[i].string_value, I.variables[i].bool_value)

EvaluateExpression(a, I, node_idx) ==
    IF ~HasAstNode(a, node_idx) THEN Error(I, "Invalid expression node", NoText)
    ELSE LET node == Node(a, node_idx)
         IN  CASE node.type = "AST_BOOLEAN_LITERAL" ->
                      Value(I, "VALUE_BOOLEAN", NoText, BoolOfToken(node.token))
               [] node.type = "AST_STRING_LITERAL" -> Value(I, "VALUE_STRING", node.token.text, FALSE)
               [] node.type = "AST_IDENTIFIER" -> EvaluateIdentifier(I, node)
               [] node.type = "AST_NOT_EXPR" -> EvaluateNot(a, I, node)
               [] node.type = "AST_AND_EXPR" -> EvaluateBinary(a, I, node, "AND")
               [] node.type = "AST_OR_EXPR" -> EvaluateBinary(a, I, node, "OR")
               [] node.type = "AST_MATCH_EXPR" -> EvaluateMatch(a, I, node)
               [] OTHER -> Error(I, "Unsupported expression type in evaluation", NoText)

\* The mutant of execute_var_decl: the name is bound before the value is known.
ExecuteVarDecl_BindingFirst(a, I, node_idx) ==
    IF ~HasAstNode(a, node_idx) \/ Node(a, node_idx).type # "AST_VAR_DECL"
    THEN Error(I, "Invalid variable declaration", NoText)
    ELSE IF \/ ~HasAstNode(a, Node(a, node_idx).first_child)
            \/ Node(a, Node(a, node_idx).first_child).type # "AST_IDENTIFIER"
    THEN Error(I, "Invalid variable name", NoText)
    ELSE LET var_name == Node(a, Node(a, node_idx).first_child)
             value == EvaluateExpression(a, I, var_name.next_sibling)
         IN  IF var_name.next_sibling = -1 THEN Error(I, "Missing variable value", NoText)
             ELSE IF value.rc # 0
             THEN [value EXCEPT !.rc = 1,
                                !.I = StoreVariable(value.I, var_name.token.text,
                                                    "VALUE_BOOLEAN", NoText, FALSE)]
             ELSE Done(StoreVariable(value.I, var_name.token.text, value.type,
                                     value.string, value.bool))

\* execute_var_decl
ExecuteVarDecl(a, I, node_idx) ==
    IF ~HasAstNode(a, node_idx) \/ Node(a, node_idx).type # "AST_VAR_DECL"
    THEN Error(I, "Invalid variable declaration", NoText)
    ELSE IF \/ ~HasAstNode(a, Node(a, node_idx).first_child)
            \/ Node(a, Node(a, node_idx).first_child).type # "AST_IDENTIFIER"
    THEN Error(I, "Invalid variable name", NoText)
    ELSE LET var_name == Node(a, Node(a, node_idx).first_child)
             value == EvaluateExpression(a, I, var_name.next_sibling)
         IN  IF var_name.next_sibling = -1 THEN Error(I, "Missing variable value", NoText)
             ELSE IF value.rc # 0 THEN [value EXCEPT !.rc = 1]
             ELSE Done(StoreVariable(value.I, var_name.token.text, value.type,
                                     value.string, value.bool))

\* The built-in print of execute_call_expr, on the argument list's first child.
ExecutePrint(a, I, arg_idx) ==
    IF arg_idx = -1 THEN Error(I, "print() requires an argument", NoText)
    ELSE IF ~HasAstNode(a, arg_idx) THEN Error(I, "Invalid argument", NoText)
    ELSE LET arg == Node(a, arg_idx)
             i == LookupVariable(I, arg.token.text)
         IN  CASE arg.type = "AST_STRING_LITERAL" -> Done(PrintString(I, arg.token.text))
               [] arg.type = "AST_BOOLEAN_LITERAL" -> Done(PrintBoolean(I, BoolOfToken(arg.token)))
               [] arg.type = "AST_IDENTIFIER" ->
                      IF i = 0 THEN Error(I, "Undefined variable", arg.token.text)
                      ELSE IF I.variables[i].type = "VALUE_STRING"
                      THEN Done(PrintString(I, I.variables[i].string_value))
                      ELSE Done(PrintBoolean(I, I.variables[i].bool_value))
               [] OTHER -> Error(I, "print() requires a string or boolean argument", NoText)

\* execute_call_expr
ExecuteCallExpr(a, I, node_idx) ==
    IF ~HasAstNode(a, node_idx) \/ Node(a, node_idx).type # "AST_CALL_EXPR"
    THEN Error(I, "Invalid call expression", NoText)
    ELSE IF \/ ~HasAstNode(a, Node(a, node_idx).first_child)
            \/ Node(a, Node(a, node_idx).first_child).type # "AST_IDENTIFIER"
    THEN Error(I, "Invalid function name in call", NoText)
    ELSE LET func_name == Node(a, Node(a, node_idx).first_child)
         IN  IF \/ ~HasAstNode(a, func_name.next_sibling)
                \/ Node(a, func_name.next_sibling).type # "AST_ARG_LIST"
             THEN Error(I, "Invalid argument list", NoText)
             ELSE IF func_name.token.text = <<"p","r","i","n","t">>
             THEN ExecutePrint(a, I, Node(a, func_name.next_sibling).first_child)
             ELSE Error(I, "Unknown function", func_name.token.text)

\* One statement of execute_block's loop: declarations and calls are executed,
\* any other child is passed over.
ExecuteStatement(a, I, child_idx) ==
    LET child == Node(a, child_idx)
    IN  IF child.type = "AST_VAR_DECL" THEN ExecuteVarDecl(a, I, child_idx)
        ELSE IF child.type = "AST_CALL_EXPR" THEN ExecuteCallExpr(a, I, child_idx)
        ELSE Done(I)

\* execute_block's loop over the statements from child_idx on.
RECURSIVE ExecuteStatements(_, _, _)
ExecuteStatements(a, I, child_idx) ==
    IF child_idx = -1 \/ ~HasAstNode(a, child_idx) THEN Done(I)
    ELSE LET result == ExecuteStatement(a, I, child_idx)
         IN  IF result.rc # 0 THEN result
             ELSE ExecuteStatements(a, result.I, Node(a, child_idx).next_sibling)

\* Where a run stands when execute_block's loop is about to start: r.rc # 0 when
\* the run failed before it, else child is the block's first statement.
Entry(r, child) == [r |-> r, child |-> child]

\* execute_block up to its loop.
EnterBlock(a, I, node_idx) ==
    IF ~HasAstNode(a, node_idx) \/ Node(a, node_idx).type # "AST_BLOCK"
    THEN Entry(Error(I, "Invalid block", NoText), -1)
    ELSE Entry(Done(I), Node(a, node_idx).first_child)

\* execute_function_decl: the body is the last AST_BLOCK child.
EnterFunctionDecl(a, I, node_idx) ==
    IF ~HasAstNode(a, node_idx) \/ Node(a, node_idx).type # "AST_FUNCTION_DECL"
    THEN Entry(Error(I, "Invalid function declaration", NoText), -1)
    ELSE LET children == SiblingsFrom(a, Node(a, node_idx).first_child)
             blocks == {i \in 1..Len(children) : Node(a, children[i]).type = "AST_BLOCK"}
         IN  IF blocks = {} THEN Entry(Error(I, "Function has no body", NoText), -1)
             ELSE EnterBlock(a, I, children[CHOOSE i \in blocks : \A j \in blocks : j <= i])

IsMainFunction(a, child_idx) ==
    /\ Node(a, child_idx).type = "AST_FUNCTION_DECL"
    /\ HasAstNode(a, Node(a, child_idx).first_child)
    /\ Node(a, Node(a, child_idx).first_child).type = "AST_IDENTIFIER"
    /\ Node(a, Node(a, child_idx).first_child).token.text = <<"m","a","i","n">>

\* The mutant of EnterProgram: the first function is entered, whatever its name.
EnterProgram_AnyFunction(a, I, node_idx) ==
    LET children == SiblingsFrom(a, Node(a, node_idx).first_child)
        functions == {i \in 1..Len(children) : Node(a, children[i]).type = "AST_FUNCTION_DECL"}
    IN  IF functions = {} THEN Entry(Error(I, "No main function found", NoText), -1)
        ELSE EnterFunctionDecl(a, I, children[CHOOSE i \in functions : \A j \in functions : i <= j])

\* execute_program: enters the first function called main.
EnterProgram(a, I, node_idx) ==
    IF ~HasAstNode(a, node_idx) \/ Node(a, node_idx).type # "AST_PROGRAM"
    THEN Entry(Error(I, "Invalid program node", NoText), -1)
    ELSE LET children == SiblingsFrom(a, Node(a, node_idx).first_child)
             mains == {i \in 1..Len(children) : IsMainFunction(a, children[i])}
         IN  IF mains = {} THEN Entry(Error(I, "No main function found", NoText), -1)
             ELSE EnterFunctionDecl(a, I, children[CHOOSE i \in mains : \A j \in mains : i <= j])

\* The loop run to its end from where e stands.
RunFrom(a, e) == IF e.r.rc # 0 THEN e.r ELSE ExecuteStatements(a, e.r.I, e.child)

ExecuteBlock(a, I, node_idx) == RunFrom(a, EnterBlock(a, I, node_idx))

ExecuteFunctionDecl(a, I, node_idx) == RunFrom(a, EnterFunctionDecl(a, I, node_idx))

ExecuteProgram(a, I, node_idx) == RunFrom(a, EnterProgram(a, I, node_idx))

\* interpret
Interpret(A, I) == ExecuteProgram(A.nodes, I, A.root)

(***************************************************************************)
(* Formatter (src/src/formatter.c).  F is the formatter: its frame stack,  *)
(* the page buffer (page_used is Len(F.page)), the bytes already written   *)
(* to the output, and the formatting state.                                *)
(***************************************************************************)
PAGE_SIZE == 4096

FormatFrame(state, node_idx, child_idx) ==
    [state |-> state, node_idx |-> node_idx, child_idx |-> child_idx, text |-> NoText]

PushFrame(F, state, node_idx, child_idx) ==
    [F EXCEPT !.stack = Append(@, FormatFrame(state, node_idx, child_idx))]

PushLiteral(F, text) ==
    [F EXCEPT !.stack = Append(@, [FormatFrame("FORMAT_LITERAL_TEXT", -1, -1) EXCEPT !.text = text])]

\* The mutant of push_indent_dec: a frame that writes nothing and changes nothing.
PushIndentDec_AsLiteral(F) == PushLiteral(F, NoText)

\* push_indent_dec
PushIndentDec(F) == PushFrame(F, "FORMAT_INDENT_DEC", -1, -1)

FlushPage(F) ==
    IF Len(F.page) = 0 THEN F ELSE [F EXCEPT !.out = @ \o F.page, !.page = <<>>]

AppendChar(F, c) ==
    LET F1 == IF Len(F.page) >= PAGE_SIZE THEN FlushPage(F) ELSE F
    IN  [F1 EXCEPT !.page = Append(@, c),
                   !.current_column = IF c = NL THEN 0 ELSE @ + 1,
                   !.at_line_start = (c = NL)]

RECURSIVE AppendString(_, _)
AppendString(F, str) ==
    IF str = <<>> THEN F ELSE AppendString(AppendChar(F, Head(str)), Tail(str))

\* n calls of append_char(formatter, c)
RECURSIVE AppendChars(_, _, _)
AppendChars(F, c, n) == IF n <= 0 THEN F ELSE AppendChars(AppendChar(F, c), c, n - 1)

FormatNewline(F) == AppendChar(F, NL)

FormatIndentation(F) ==
    IF ~F.at_line_start THEN F
    ELSE [AppendChars(F, TAB, F.current_indent) EXCEPT !.at_line_start = FALSE]

TokenTypeToString(type) ==
    CASE type = "MODULE" -> <<"m","o","d","u","l","e">>
      [] type = "IMPORT" -> <<"i","m","p","o","r","t">>
      [] type = "EXPORT" -> <<"e","x","p","o","r","t">>
      [] type = "RETURN" -> <<"r","e","t","u","r","n">>
      [] type = "MATCH" -> <<"m","a","t","c","h">>
      [] type = "TYPE" -> <<"t","y","p","e">>
      [] type = "TRY" -> <<"t","r","y">>
      [] type = "AND" -> <<"a","n","d">>
      [] type = "OR" -> <<"o","r">>
      [] type = "TRUE" -> <<"t","r","u","e">>
      [] type = "FALSE" -> <<"f","a","l","s","e">>
      [] type = "THIS" -> <<"t","h","i","s">>
      [] type = "PARTIAL" -> <<"p","a","r","t","i","a","l">>
      [] type = "COLON" -> <<":">>
      [] type = "SEMICOLON" -> <<";">>
      [] type = "COMMA" -> <<",">>
      [] type = "DOT" -> <<".">>
      [] type = "PIPE" -> <<"|">>
      [] type = "UNDERSCORE" -> <<"_">>
      [] type = "STAR" -> <<"*">>
      [] type = "LPAREN" -> <<"(">>
      [] type = "RPAREN" -> <<")">>
      [] type = "LBRACE" -> <<"{">>
      [] type = "RBRACE" -> <<"}">>
      [] type = "LBRACKET" -> <<"[">>
      [] type = "RBRACKET" -> <<"]">>
      [] type = "LANGLE" -> <<"<">>
      [] type = "RANGLE" -> <<">">>
      [] type = "PLUS" -> <<"+">>
      [] type = "MINUS" -> <<"-">>
      [] OTHER -> <<>>

FormatTerminalNode(F, node) ==
    LET F1 == AppendChars(F, NL, node.leading_newlines)
        F2 == IF F1.at_line_start /\ Len(F1.page) > 0 /\ F1.current_indent > 0
              THEN FormatIndentation(F1) ELSE F1
        token_text == IF node.token.text # NoText THEN node.token.text
                      ELSE TokenTypeToString(node.token.type)
    IN  IF token_text = <<>> THEN F2 ELSE AppendString(F2, token_text)

\* get_node(tree, index) != NULL
HasNode(t, index) == index >= 0 /\ index < Len(t)

\* case FORMAT_NODE, for a node that exists
FORMAT_NODE(F, t, frame) ==
    LET node == Node(t, frame.node_idx)
        first_child == node.first_child
        second_child == IF HasNode(t, first_child) THEN Node(t, first_child).next_sibling ELSE -1
        third_child == IF HasNode(t, second_child) THEN Node(t, second_child).next_sibling ELSE -1
        F1 == PushLiteral(F, <<NL>>)
        F2 == IF HasNode(t, third_child) THEN PushFrame(F1, "FORMAT_NODE", third_child, -1) ELSE F1
        F3 == IF HasNode(t, second_child) THEN PushFrame(F2, "FORMAT_NODE", second_child, -1) ELSE F2
        C1 == PushLiteral(F, <<")">>)
        C2 == IF second_child # -1 THEN PushFrame(C1, "FORMAT_NODE", second_child, -1) ELSE C1
    IN  CASE node.type \in {"IDENTIFIER", "STRING_LITERAL"} ->
                 PushFrame(F, "FORMAT_TERMINAL", frame.node_idx, -1)
          [] node.type = "COMMENT" -> PushFrame(F, "FORMAT_COMMENT", frame.node_idx, -1)
          [] node.type = "NEWLINE" -> FormatNewline(F)
          [] node.type = "FUNCTION_DECL" ->
                 IF ~HasNode(t, first_child) THEN F
                 ELSE PushFrame(PushLiteral(F3, <<":", " ">>), "FORMAT_NODE", first_child, -1)
          [] node.type = "BLOCK" ->
                 PushLiteral([PushFrame(PushIndentDec(PushLiteral(F, <<"}">>)),
                                        "FORMAT_CHILDREN", frame.node_idx, -1)
                                  EXCEPT !.current_indent = @ + 1],
                             <<" ", "{">>)
          [] node.type = "PARAM_LIST" ->
                 PushLiteral(PushFrame(PushLiteral(F, <<")">>), "FORMAT_CHILDREN", frame.node_idx, -1),
                             <<"(">>)
          [] node.type = "CALL_EXPR" ->
                 IF ~HasNode(t, first_child) THEN F
                 ELSE PushFrame(PushLiteral(C2, <<"(">>), "FORMAT_NODE", first_child, -1)
          [] OTHER -> PushFrame(F, "FORMAT_CHILDREN", frame.node_idx, -1)

\* case FORMAT_CHILDREN, for a node that exists
FORMAT_CHILDREN(F, t, frame) ==
    LET child_idx == IF frame.child_idx = -1 THEN Node(t, frame.node_idx).first_child
                     ELSE IF HasNode(t, frame.child_idx) THEN Node(t, frame.child_idx).next_sibling
                     ELSE -1
    IN  IF child_idx # -1
        THEN PushFrame(PushFrame(F, "FORMAT_CHILDREN", frame.node_idx, child_idx),
                       "FORMAT_NODE", child_idx, -1)
        ELSE F

FORMAT_COMMENT(F, t, frame) ==
    LET F1 == IF ~F.at_line_start THEN AppendChar(F, " ") ELSE F
    IN  IF HasNode(t, frame.node_idx) THEN FormatTerminalNode(F1, Node(t, frame.node_idx)) ELSE F1

\* One iteration of format_tree's loop: pop a frame and run its case.
FormatIteration(F, t) ==
    LET frame == F.stack[Len(F.stack)]
        F0 == [F EXCEPT !.stack = SubSeq(@, 1, Len(@) - 1)]
    IN  CASE frame.state = "FORMAT_NODE" ->
                 IF HasNode(t, frame.node_idx) THEN FORMAT_NODE(F0, t, frame) ELSE F0
          [] frame.state = "FORMAT_CHILDREN" ->
                 IF HasNode(t, frame.node_idx) THEN FORMAT_CHILDREN(F0, t, frame) ELSE F0
          [] frame.state = "FORMAT_TERMINAL" ->
                 IF HasNode(t, frame.node_idx) THEN FormatTerminalNode(F0, Node(t, frame.node_idx))
                 ELSE F0
          [] frame.state = "FORMAT_COMMENT" -> FORMAT_COMMENT(F0, t, frame)
          [] frame.state = "FORMAT_LITERAL_TEXT" ->
                 IF frame.text # NoText THEN AppendString(F0, frame.text) ELSE F0
          [] frame.state = "FORMAT_INDENT_DEC" -> [F0 EXCEPT !.current_indent = @ - 1]

\* create_formatter
CreateFormatter ==
    [stack |-> <<>>, out |-> <<>>, page |-> <<>>, current_indent |-> 0, current_column |-> 0,
     at_line_start |-> TRUE]

(***************************************************************************)
(* The stages run to completion, as functions of their input.              *)
(***************************************************************************)
\* parse(): the main loop, to the empty stack (or to a lexer call that never returns).
RECURSIVE ParseAll(_)
ParseAll(P) == IF P.stack = <<>> \/ P.lexer.hung THEN P ELSE ParseAll(ParseIteration(P))

ParseSource(source) == ParseAll(NewParser(CreateLexer(source)))

\* format_tree: the loop to the empty stack, then the final flush.
RECURSIVE FormatAll(_, _)
FormatAll(F, t) == IF F.stack = <<>> THEN FlushPage(F) ELSE FormatAll(FormatIteration(F, t), t)

\* format_to_stdout: the bytes written for a tree.
FormatToStdout(t) == FormatAll(PushFrame(CreateFormatter, "FORMAT_NODE", 0, -1), t).out

\* print_tokens: the tokens next_token returns for a source, EOF included.
TokensOf(source) ==
    LET lx == CreateLexer(source)
    IN  <<lx.current_token>> \o [i \in 1..Len(lx.ahead) |-> lx.ahead[i].current_token]

(***************************************************************************)
(* The sources the pipeline is run on: the scenarios of the specification, *)
(* programs that reach every case of the parser, every program of at most  *)
(* MaxLines lines drawn from Lines, and a main function around every body  *)
(* of at most MaxStatements statements drawn from Statements.              *)
(***************************************************************************)
\* S1: hello world
\*     main : () {
\*         print("Hello, World!\n")
\*     }
S1_HelloWorld ==
    <<"m","a","i","n"," ",":"," ","(",")"," ","{",NL," "," "," "," ","p","r","i","n","t",
      "(",DQUOTE,"H","e","l","l","o",","," ","W","o","r","l","d","!",BSLASH,"n",DQUOTE,")",
      NL,"}",NL>>

\* S2: variable binding
\*     main : () {
\*         greeting : "hi\n"
\*         print(greeting)
\*     }
S2_VariableBinding ==
    <<"m","a","i","n"," ",":"," ","(",")"," ","{",NL," "," "," "," ","g","r","e","e","t",
      "i","n","g"," ",":"," ",DQUOTE,"h","i",BSLASH,"n",DQUOTE,NL," "," "," "," ","p","r",
      "i","n","t","(","g","r","e","e","t","i","n","g",")",NL,"}",NL>>

\* S3: boolean match expression, as printed in the specification
\*     main : () {
\*         x : true
\*         y : match x { true : "T" false : "F" }
\*         print(y)
\*     }
S3_BooleanMatch ==
    <<"m","a","i","n"," ",":"," ","(",")"," ","{",NL," "," "," "," ","x"," ",":"," ","t",
      "r","u","e",NL," "," "," "," ","y"," ",":"," ","m","a","t","c","h"," ","x"," ","{",
      " ","t","r","u","e"," ",":"," ",DQUOTE,"T",DQUOTE," ","f","a","l","s","e"," ",":"," ",
      DQUOTE,"F",DQUOTE," ","}",NL," "," "," "," ","p","r","i","n","t","(","y",")",NL,"}",NL>>

\* S3 with one arm per line
\*     main : () {
\*         x : true
\*         y : match x {
\*             true : "T"
\*             false : "F"
\*         }
\*         print(y)
\*     }
S3_BooleanMatchLines ==
    <<"m","a","i","n"," ",":"," ","(",")"," ","{",NL," "," "," "," ","x"," ",":"," ","t",
      "r","u","e",NL," "," "," "," ","y"," ",":"," ","m","a","t","c","h"," ","x"," ","{",NL,
      " "," "," "," "," "," "," "," ","t","r","u","e"," ",":"," ",DQUOTE,"T",DQUOTE,NL," ",
      " "," "," "," "," "," "," ","f","a","l","s","e"," ",":"," ",DQUOTE,"F",DQUOTE,NL," ",
      " "," "," ","}",NL," "," "," "," ","p","r","i","n","t","(","y",")",NL,"}",NL>>

\* S4: undefined variable
\*     main : () { print(nope) }
S4_UndefinedVariable ==
    <<"m","a","i","n"," ",":"," ","(",")"," ","{"," ","p","r","i","n","t","(","n","o","p",
      "e",")"," ","}",NL>>

\* S5: two functions, the first omits '{' after '()'
\*     first : ()
\*         print("a")
\*     }
\*     main : () {
\*         print("b")
\*     }
S5_MissingBrace ==
    <<"f","i","r","s","t"," ",":"," ","(",")",NL," "," "," "," ","p","r","i","n","t","(",
      DQUOTE,"a",DQUOTE,")",NL,"}",NL,"m","a","i","n"," ",":"," ","(",")"," ","{",NL," ",
      " "," "," ","p","r","i","n","t","(",DQUOTE,"b",DQUOTE,")",NL,"}",NL>>

\* S5 where the first function is its header line alone
\*     first : ()
\*     main : () {
\*         print("b")
\*     }
S5_MissingBraceOnly ==
    <<"f","i","r","s","t"," ",":"," ","(",")",NL,"m","a","i","n"," ",":"," ","(",")"," ",
      "{",NL," "," "," "," ","p","r","i","n","t","(",DQUOTE,"b",DQUOTE,")",NL,"}",NL>>

\* comments and newlines at program, parameter, block and argument scope
\*     // top
\*     main : ( // p
\*     ) { // b
\*     <tab>print( // a
\*     <tab><tab>"a", true, x)
\*     }
\*     // end
P_Trivia ==
    <<"/","/"," ","t","o","p",NL,"m","a","i","n"," ",":"," ","("," ","/","/"," ","p",NL,")",
      " ","{"," ","/","/"," ","b",NL,TAB,"p","r","i","n","t","("," ","/","/"," ","a",NL,TAB,
      TAB,DQUOTE,"a",DQUOTE,","," ","t","r","u","e",","," ","x",")",NL,"}",NL,"/","/"," ",
      "e","n","d">>

\* a match statement and an operator expression
\*     main : () {
\*         x : true or false and true
\*         match x {
\*             true : print("T")
\*             _ : print("F")
\*         }
\*     }
P_MatchStmt ==
    <<"m","a","i","n"," ",":"," ","(",")"," ","{",NL," "," "," "," ","x"," ",":"," ","t",
      "r","u","e"," ","o","r"," ","f","a","l","s","e"," ","a","n","d"," ","t","r","u","e",
      NL," "," "," "," ","m","a","t","c","h"," ","x"," ","{",NL," "," "," "," "," "," "," ",
      " ","t","r","u","e"," ",":"," ","p","r","i","n","t","(",DQUOTE,"T",DQUOTE,")",NL," ",
      " "," "," "," "," "," "," ","_"," ",":"," ","p","r","i","n","t","(",DQUOTE,"F",DQUOTE,
      ")",NL," "," "," "," ","}",NL,"}",NL>>

\* comments on lines that error recovery skips
\*     main : () {
\*         print("a") x // c
\*         ) // d
\*     }
P_SkippedComment ==
    <<"m","a","i","n"," ",":"," ","(",")"," ","{",NL," "," "," "," ","p","r","i","n","t",
      "(",DQUOTE,"a",DQUOTE,")"," ","x"," ","/","/"," ","c",NL," "," "," "," ",")"," ","/",
      "/"," ","d",NL,"}",NL>>

\* an argument list that cannot be parsed
\*     main : () {
\*         print(: // c
\*     }
P_BadArgs ==
    <<"m","a","i","n"," ",":"," ","(",")"," ","{",NL," "," "," "," ","p","r","i","n","t",
      "(",":"," ","/","/"," ","c",NL,"}",NL>>

\* a match expression whose arm has no pattern
\*     main : () {
\*         y : match x { : "T" }
\*     }
P_BadMatchExpr ==
    <<"m","a","i","n"," ",":"," ","(",")"," ","{",NL," "," "," "," ","y"," ",":"," ","m",
      "a","t","c","h"," ","x"," ","{"," ",":"," ",DQUOTE,"T",DQUOTE," ","}",NL,"}",NL>>

\* a match expression without a subject
\*     z : match {
P_BadMatchSubject ==
    <<"z"," ",":"," ","m","a","t","c","h"," ","{",NL>>

\* a match statement whose arm has no pattern
\*     main : () {
\*         match x {
\*             + : f()
\*         }
\*     }
P_BadMatchStmt ==
    <<"m","a","i","n"," ",":"," ","(",")"," ","{",NL," "," "," "," ","m","a","t","c","h",
      " ","x"," ","{",NL," "," "," "," "," "," "," "," ","+"," ",":"," ","f","(",")",NL," ",
      " "," "," ","}",NL,"}",NL>>

\* a match statement without '{', then a statement that is none
\*     main : () {
\*         match x
\*         a f()
\*     }
P_BadMatchBrace ==
    <<"m","a","i","n"," ",":"," ","(",")"," ","{",NL," "," "," "," ","m","a","t","c","h",
      " ","x",NL," "," "," "," ","a"," ","f","(",")",NL,"}",NL>>

\* match arms whose body is the closing brace
\*     main : () {
\*         match x { a : }
\*         y : match x { _ : }
\*     }
P_MatchArmBrace ==
    <<"m","a","i","n"," ",":"," ","(",")"," ","{",NL," "," "," "," ","m","a","t","c","h",
      " ","x"," ","{"," ","a"," ",":"," ","}",NL," "," "," "," ","y"," ",":"," ","m","a",
      "t","c","h"," ","x"," ","{"," ","_"," ",":"," ","}",NL,"}",NL>>

\* an interpolated string that is never closed
\*     main : () {
\*         s : `abc
\*     }
P_Unterminated ==
    <<"m","a","i","n"," ",":"," ","(",")"," ","{",NL," "," "," "," ","s"," ",":"," ",BTICK,
      "a","b","c",NL,"}",NL>>

\* a function before main and a call outside any function after it
\*     other : () {
\*         print("o")
\*     }
\*     main : () {
\*         print("m")
\*     }
\*     print("t")
P_TwoFunctions ==
    <<"o","t","h","e","r"," ",":"," ","(",")"," ","{",NL," "," "," "," ","p","r","i","n",
      "t","(",DQUOTE,"o",DQUOTE,")",NL,"}",NL,"m","a","i","n"," ",":"," ","(",")"," ","{",
      NL," "," "," "," ","p","r","i","n","t","(",DQUOTE,"m",DQUOTE,")",NL,"}",NL,"p","r",
      "i","n","t","(",DQUOTE,"t",DQUOTE,")",NL>>

\* no function called main
\*     mains : () {
\*         print("s")
\*     }
\*     x : true
P_NoMain ==
    <<"m","a","i","n","s"," ",":"," ","(",")"," ","{",NL," "," "," "," ","p","r","i","n",
      "t","(",DQUOTE,"s",DQUOTE,")",NL,"}",NL,"x"," ",":"," ","t","r","u","e",NL>>

\* two functions called main
\*     main : () {
\*         print("1")
\*     }
\*     main : () {
\*         print("2")
\*     }
P_TwoMains ==
    <<"m","a","i","n"," ",":"," ","(",")"," ","{",NL," "," "," "," ","p","r","i","n","t",
      "(",DQUOTE,"1",DQUOTE,")",NL,"}",NL,"m","a","i","n"," ",":"," ","(",")"," ","{",NL,
      " "," "," "," ","p","r","i","n","t","(",DQUOTE,"2",DQUOTE,")",NL,"}",NL>>

\* declarations and a call outside any function
\*     x : "a" + "b" | - y
\*     f()
P_TopLevelVar ==
    <<"x"," ",":"," ",DQUOTE,"a",DQUOTE," ","+"," ",DQUOTE,"b",DQUOTE," ","|"," ","-"," ",
      "y",NL,"f","(",")",NL>>

\*     main : () {
L_Function ==
    <<"m","a","i","n"," ",":"," ","(",")"," ","{",NL>>

\*     f : ()
L_Header ==
    <<"f"," ",":"," ","(",")",NL>>

\*     print("a")
L_Print ==
    <<"p","r","i","n","t","(",DQUOTE,"a",DQUOTE,")",NL>>

\*     }
L_Close ==
    <<"}",NL>>

\*     x : true // c
L_Var ==
    <<"x"," ",":"," ","t","r","u","e"," ","/","/"," ","c",NL>>

\*     y : match x { _ : x }
L_Match ==
    <<"y"," ",":"," ","m","a","t","c","h"," ","x"," ","{"," ","_"," ",":"," ","x"," ","}",NL>>

\*     )
L_Paren ==
    <<")",NL>>

\*     f(x,
L_OpenCall ==
    <<"f","(","x",",",NL>>

\*     match x {
L_OpenMatch ==
    <<"m","a","t","c","h"," ","x"," ","{",NL>>

\*     _ : f() 1
L_Arm ==
    <<"_"," ",":"," ","f","(",")"," ","1",NL>>

\*     z : - +
L_OpenVar ==
    <<"z"," ",":"," ","-"," ","+",NL>>

\*     print("a")
St_PrintLiteral ==
    <<"p","r","i","n","t","(",DQUOTE,"a",DQUOTE,")",NL>>

\*     print(x)
St_PrintX ==
    <<"p","r","i","n","t","(","x",")",NL>>

\*     x : "s"
St_XString ==
    <<"x"," ",":"," ",DQUOTE,"s",DQUOTE,NL>>

\*     x : true
St_XTrue ==
    <<"x"," ",":"," ","t","r","u","e",NL>>

\*     x : y
St_XFromY ==
    <<"x"," ",":"," ","y",NL>>

\*     y : x
St_YFromX ==
    <<"y"," ",":"," ","x",NL>>

Statements == {St_PrintLiteral, St_PrintX, St_XString, St_XTrue, St_XFromY, St_YFromX}

Scenarios ==
    {S1_HelloWorld,
     S2_VariableBinding,
     S3_BooleanMatch,
     S3_BooleanMatchLines,
     S4_UndefinedVariable,
     S5_MissingBrace,
     S5_MissingBraceOnly,
     P_Trivia,
     P_MatchStmt,
     P_SkippedComment,
     P_BadArgs,
     P_BadMatchExpr,
     P_BadMatchSubject,
     P_BadMatchStmt,
     P_BadMatchBrace,
     P_MatchArmBrace,
     P_Unterminated,
     P_TwoFunctions,
     P_NoMain,
     P_TwoMains,
     P_TopLevelVar}

Lines == {L_Function, L_Header, L_Print, L_Close, L_Var, L_Match, L_Paren, L_OpenCall, L_OpenMatch, L_Arm, L_OpenVar}

MaxLines == 2

\* Every concatenation of at most n lines.
RECURSIVE LinePrograms(_)
LinePrograms(n) ==
    IF n = 0 THEN {<<>>}
    ELSE LinePrograms(n - 1) \cup {p \o l : p \in LinePrograms(n - 1), l \in Lines}

MaxStatements == 3

\* Every sequence of at most n statement lines.
RECURSIVE Bodies(_)
Bodies(n) ==
    IF n = 0 THEN {<<>>}
    ELSE Bodies(n - 1) \cup {b \o s : b \in Bodies(n - 1), s \in Statements}

\* A main function with each of those bodies.
RunPrograms == {L_Function \o b \o L_Close : b \in Bodies(MaxStatements)}

Sources == Scenarios \cup LinePrograms(MaxLines) \cup RunPrograms

(***************************************************************************)
(* The pipeline: a source is lexed and parsed one frame at a time, then a  *)
(* command of src/src/main.c acts on the parse.                            *)
(***************************************************************************)
\* create_interpreter
CreateInterpreter == [variables |-> <<>>, out |-> <<>>, err |-> <<>>]

Parser == [lexer |-> lexer, tree |-> tree, stack |-> stack, errors |-> errors,
           consumed |-> consumed]

Init ==
    \E source \in Sources :
        /\ lexer = CreateLexer(source)
        /\ pc = IF lexer.hung THEN "hung" ELSE "start"
        /\ stack = <<>>
        /\ tree = <<>>
        /\ errors = <<>>
        /\ consumed = <<>>
        /\ fmt = CreateFormatter
        /\ ast = NoAst
        /\ exit = -1
        /\ interp = CreateInterpreter
        /\ expr = <<>>
        /\ strings = NoStrings
        /\ array = NoArray
        /\ block = NoBlock
        /\ arena = NoArena

\* The parser's state after a step; pc = "hung" when the lexer never returned.
SetParser(P) ==
    /\ lexer' = P.lexer
    /\ tree' = P.tree
    /\ stack' = P.stack
    /\ errors' = P.errors
    /\ consumed' = P.consumed
    /\ pc' = IF P.lexer.hung THEN "hung" ELSE "parse"
    /\ UNCHANGED <<arena, fmt, ast, interp, exit, expr, strings, array, block>>

ParseBegin ==
    /\ pc = "start"
    /\ SetParser(NewParser(lexer))

\* The guard of an iteration that pops a frame of the given state.
AtCase(state) == pc = "parse" /\ stack # <<>> /\ stack[Len(stack)].state = state

TopFrame == stack[Len(stack)]

ParseTopLevel == AtCase("PARSE") /\ SetParser(PARSE(PopFrame(Parser), TopFrame))

ParseStatement ==
    AtCase("PARSE_STATEMENT") /\ SetParser(PARSE_STATEMENT(PopFrame(Parser), TopFrame))

ParseFunctionDecl ==
    AtCase("PARSE_FUNCTION_DECL") /\ SetParser(PARSE_FUNCTION_DECL(PopFrame(Parser), TopFrame))

ParseVarDecl ==
    AtCase("PARSE_VAR_DECL") /\ SetParser(PARSE_VAR_DECL(PopFrame(Parser), TopFrame))

ParseParamList ==
    AtCase("PARSE_PARAM_LIST") /\ SetParser(PARSE_PARAM_LIST(PopFrame(Parser), TopFrame))

ParseBlock == AtCase("PARSE_BLOCK") /\ SetParser(PARSE_BLOCK(PopFrame(Parser), TopFrame))

ParseExpression ==
    AtCase("PARSE_EXPRESSION") /\ SetParser(PARSE_EXPRESSION(PopFrame(Parser), TopFrame))

ParseCallArgs ==
    AtCase("PARSE_CALL_ARGS") /\ SetParser(PARSE_CALL_ARGS(PopFrame(Parser), TopFrame))

ParseMatchExpr ==
    AtCase("PARSE_MATCH_EXPR") /\ SetParser(PARSE_MATCH_EXPR(PopFrame(Parser), TopFrame))

ParseMatchStmt ==
    AtCase("PARSE_MATCH_STMT") /\ SetParser(PARSE_MATCH_STMT(PopFrame(Parser), TopFrame))

\* while (array_length(parser->stack) > 0) fails: parse returns the tree.
ParseReturn ==
    /\ pc = "parse"
    /\ stack = <<>>
    /\ pc' = "parsed"
    /\ UNCHANGED <<arena, lexer, stack, tree, errors, consumed, fmt, ast, interp, exit, expr, strings, array, block>>

\* command_format and command_run alike: "Syntax errors found", return 1.
SyntaxErrorsFound ==
    /\ pc = "parsed"
    /\ errors # <<>>
    /\ pc' = "syntax_errors"
    /\ exit' = 1
    /\ UNCHANGED <<arena, lexer, stack, tree, errors, consumed, fmt, ast, interp, expr, strings, array, block>>

\* command_format on an error-free parse: format_to_stdout up to format_tree's loop.
CommandFormat ==
    /\ pc = "parsed"
    /\ errors = <<>>
    /\ fmt' = PushFrame(CreateFormatter, "FORMAT_NODE", 0, -1)
    /\ pc' = "format"
    /\ UNCHANGED <<arena, lexer, stack, tree, errors, consumed, ast, interp, exit, expr, strings, array, block>>

FormatStep ==
    /\ pc = "format"
    /\ fmt.stack # <<>>
    /\ fmt' = FormatIteration(fmt, tree)
    /\ UNCHANGED <<arena, lexer, pc, stack, tree, errors, consumed, ast, interp, exit, expr, strings, array, block>>

\* The loop of format_tree ends: flush the page; command_format returns 0.
FormatReturn ==
    /\ pc = "format"
    /\ fmt.stack = <<>>
    /\ fmt' = FlushPage(fmt)
    /\ pc' = "formatted"
    /\ exit' = 0
    /\ UNCHANGED <<arena, lexer, stack, tree, errors, consumed, ast, interp, expr, strings, array, block>>

\* The mutant of CommandRun: command_run without its check for syntax errors.
CommandRun_IgnoringErrors ==
    /\ pc = "parsed"
    /\ ast' = BuildAstFromParseTree(tree)
    /\ interp' = CreateInterpreter
    /\ pc' = "run"
    /\ UNCHANGED <<arena, lexer, stack, tree, errors, consumed, fmt, exit, expr, strings, array, block>>

\* command_run on an error-free parse: build the AST, create the interpreter.
CommandRun ==
    /\ pc = "parsed"
    /\ errors = <<>>
    /\ ast' = BuildAstFromParseTree(tree)
    /\ interp' = CreateInterpreter
    /\ pc' = "run"
    /\ UNCHANGED <<arena, lexer, stack, tree, errors, consumed, fmt, exit, expr, strings, array, block>>

\* The mutant of RunStatement: the loop of execute_block without its
\* `if (result != 0) return result`.
RunStatement_ContinuesAfterError ==
    /\ pc = "block"
    /\ HasAstNode(ast.nodes, block.child)
    /\ LET result == ExecuteStatement(ast.nodes, interp, block.child)
       IN  /\ interp' = result.I
           /\ block' = [child |-> Node(ast.nodes, block.child).next_sibling,
                        ran |-> Append(block.ran, [node |-> block.child, rc |-> result.rc])]
    /\ UNCHANGED <<arena, lexer, pc, stack, tree, errors, consumed, fmt, ast, exit, expr, strings, array>>

\* interpret: execute_program finds main, execute_function_decl its block, and
\* execute_block stands before its first statement; or one of them fails.
RunProgram ==
    /\ pc = "run"
    /\ LET e == EnterProgram(ast.nodes, interp, ast.root)
       IN  /\ interp' = e.r.I
           /\ block' = [child |-> e.child, ran |-> <<>>]
           /\ pc' = IF e.r.rc # 0 THEN "ran" ELSE "block"
           /\ exit' = IF e.r.rc # 0 THEN e.r.rc ELSE exit
    /\ UNCHANGED <<arena, lexer, stack, tree, errors, consumed, fmt, ast, expr, strings, array>>

\* One iteration of execute_block's loop: the statement at block.child is executed;
\* a result other than 0 is returned at once, through interpret, by command_run.
RunStatement ==
    /\ pc = "block"
    /\ HasAstNode(ast.nodes, block.child)
    /\ LET result == ExecuteStatement(ast.nodes, interp, block.child)
       IN  /\ interp' = result.I
           /\ block' = [child |-> IF result.rc # 0 THEN block.child
                                  ELSE Node(ast.nodes, block.child).next_sibling,
                        ran |-> Append(block.ran, [node |-> block.child, rc |-> result.rc])]
           /\ pc' = IF result.rc # 0 THEN "ran" ELSE "block"
           /\ exit' = IF result.rc # 0 THEN result.rc ELSE exit
    /\ UNCHANGED <<arena, lexer, stack, tree, errors, consumed, fmt, ast, expr, strings, array>>

\* The loop of execute_block ends: command_run returns 0.
RunReturn ==
    /\ pc = "block"
    /\ ~HasAstNode(ast.nodes, block.child)
    /\ pc' = "ran"
    /\ exit' = 0
    /\ UNCHANGED <<arena, lexer, stack, tree, errors, consumed, fmt, ast, interp, expr, strings, array,
                   block>>

Next ==
    \/ ParseBegin
    \/ ParseTopLevel
    \/ ParseStatement
    \/ ParseFunctionDecl
    \/ ParseVarDecl
    \/ ParseParamList
    \/ ParseBlock
    \/ ParseExpression
    \/ ParseCallArgs
    \/ ParseMatchExpr
    \/ ParseMatchStmt
    \/ ParseReturn
    \/ SyntaxErrorsFound
    \/ CommandFormat
    \/ FormatStep
    \/ FormatReturn
    \/ CommandRun
    \/ RunProgram
    \/ RunStatement
    \/ RunReturn

Spec == Init /\ [][Next]_vars

(***************************************************************************)
(* Properties of the parser                                                *)
(***************************************************************************)
\* The work a frame stands for: more than that of the frames it is replaced by
\* when it consumes no token.
FrameWork(state) ==
    CASE state = "PARSE" -> 1
      [] state = "PARSE_FUNCTION_DECL" -> 5
      [] state = "PARSE_VAR_DECL" -> 4
      [] state = "PARSE_EXPRESSION" -> 3
      [] OTHER -> 2

RECURSIVE StackWork(_)
StackWork(frames) ==
    IF frames = <<>> THEN 0 ELSE FrameWork(Head(frames).state) + StackWork(Tail(frames))

\* A scope frame (program, or a block already opened) about to be popped at an
\* identifier still has that statement to start.
StatementAhead ==
    /\ stack # <<>>
    /\ lexer.current_token.type = "IDENTIFIER"
    /\ \/ TopFrame.state = "PARSE"
       \/ TopFrame.state = "PARSE_BLOCK" /\ TopFrame.current_node_idx # -1

PendingWork == StackWork(stack) + (IF StatementAhead THEN 3 ELSE 0)

\* C1: parse() terminates on a token stream that ends in EOF (the lexer does not
\* hang): every iteration of the main loop consumes a token or shrinks the
\* pending work, so the tokens left and the pending work, taken in that order,
\* go down at every iteration; and once the loop is left the frame stack is
\* empty and the tree has its PROGRAM root, with the error list beside it.
C1_ParseTerminates ==
    /\ [][(pc = "parse" /\ pc' = "parse") =>
             \/ Len(consumed') > Len(consumed) /\ Len(lexer'.ahead) < Len(lexer.ahead)
             \/ consumed' = consumed /\ PendingWork' < PendingWork]_vars
    /\ [](pc \in {"parsed", "syntax_errors", "format", "formatted", "run", "block", "ran"} =>
             /\ stack = <<>>
             /\ Len(tree) >= 1 /\ tree[1].type = "PROGRAM" /\ tree[1].parent = -1
             /\ (errors = <<>> \/ Len(errors) >= 1))

\* C1 witness: parse() has returned from a source with syntax errors, after
\* consuming tokens by error recovery.
C1_Witness ==
    /\ pc = "parsed"
    /\ stack = <<>>
    /\ errors # <<>>
    /\ \E i \in 1..Len(consumed) : consumed[i].by = "skip"

\* The COMMENT/NEWLINE tokens among history entries, in order.
RECURSIVE TriviaTokens(_)
TriviaTokens(entries) ==
    IF entries = <<>> THEN <<>>
    ELSE (IF Head(entries).tok.type \in {"COMMENT", "NEWLINE"} THEN <<Head(entries).tok>> ELSE <<>>)
         \o TriviaTokens(Tail(entries))

\* The tokens of the COMMENT/NEWLINE nodes among nodes, in order, that are
\* children of some node.
RECURSIVE TriviaNodeTokens(_)
TriviaNodeTokens(nodes) ==
    IF nodes = <<>> THEN <<>>
    ELSE (IF Head(nodes).type \in {"COMMENT", "NEWLINE"} /\ Head(nodes).parent # -1
          THEN <<Head(nodes).token>> ELSE <<>>)
         \o TriviaNodeTokens(Tail(nodes))

\* C9: in an iteration of the parser at program, block, parameter-list or
\* argument-list scope, the COMMENT and NEWLINE tokens consumed are, in order,
\* exactly the tokens of the COMMENT/NEWLINE nodes the iteration adds to the tree:
\* none is consumed without a node made for it.
C9_TriviaRecorded ==
    [][(/\ pc = "parse" /\ stack # <<>>
        /\ TopFrame.state \in {"PARSE", "PARSE_BLOCK", "PARSE_PARAM_LIST", "PARSE_CALL_ARGS"}
        /\ ~lexer'.hung) =>
          TriviaTokens(SubSeq(consumed', Len(consumed) + 1, Len(consumed')))
              = TriviaNodeTokens(SubSeq(tree', Len(tree) + 1, Len(tree')))]_vars

\* C10: for the source with two functions whose first omits '{', parse returns
\* with exactly one error, "Expected '{' for block" at the first function's line.
C10_OneErrorForMissingBrace ==
    (pc = "parsed" /\ lexer.source = S5_MissingBrace) =>
        /\ Len(errors) = 1
        /\ errors[1].message = "Expected '{' for block"
        /\ errors[1].line = 1

(***************************************************************************)
(* Properties of the formatter                                             *)
(***************************************************************************)
\* Kind and text of the tokens that are not NEWLINE.
RECURSIVE Significant(_)
Significant(tokens) ==
    IF tokens = <<>> THEN <<>>
    ELSE (IF Head(tokens).type = "NEWLINE" THEN <<>>
          ELSE <<[type |-> Head(tokens).type, text |-> Head(tokens).text]>>)
         \o Significant(Tail(tokens))

\* C3: when command_format has formatted an error-free source, lexing its output
\* gives the tokens of the source, kind and text, in order, NEWLINE tokens aside.
C3_FormatKeepsTokens ==
    pc = "formatted" => Significant(TokensOf(fmt.out)) = Significant(TokensOf(lexer.source))

\* The number of newline bytes in text.
RECURSIVE Newlines(_)
Newlines(text) ==
    IF text = <<>> THEN 0 ELSE (IF Head(text) = NL THEN 1 ELSE 0) + Newlines(Tail(text))

\* C4: when command_format has formatted an error-free source and parse accepts
\* its output, formatting that output gives the same bytes again, so with no
\* more newline bytes than before.
C4_FormatIdempotent ==
    (pc = "formatted" /\ ParseSource(fmt.out).errors = <<>>) =>
        /\ FormatToStdout(ParseSource(fmt.out).tree) = fmt.out
        /\ Newlines(FormatToStdout(ParseSource(fmt.out).tree)) <= Newlines(fmt.out)

(***************************************************************************)
(* Properties of the AST builder and of the run                            *)
(***************************************************************************)
\* C6: the run of the S3 program (x bound to true, y to the match on x, print y)
\* meets no syntax error, writes T and returns 0; so does the same program with
\* one match arm per line.
C6_MatchProgramPrintsT ==
    lexer.source \in {S3_BooleanMatch, S3_BooleanMatchLines} =>
        /\ pc # "syntax_errors"
        /\ pc = "ran" => (interp.out = <<"T">> /\ exit = 0)

\* parse node i hangs from the root.
RECURSIVE Attached(_, _)
Attached(t, i) == i = 0 \/ (Node(t, i).parent # -1 /\ Attached(t, Node(t, i).parent))

\* The AST nodes converted from parse node i.
Counterparts(i) == {j \in 0..(Len(ast.nodes) - 1) : Node(ast.nodes, j).from = i}

\* The parse nodes, in order, that the children of AST node j were converted from.
AstChildrenFrom(j) ==
    [k \in 1..Len(Children(ast.nodes, j)) |-> Node(ast.nodes, Children(ast.nodes, j)[k]).from]

\* The children of parse node i that are not COMMENT or NEWLINE, in order.
RECURSIVE NonTrivia(_, _)
NonTrivia(t, kids) ==
    IF kids = <<>> THEN <<>>
    ELSE (IF ShouldIncludeNode(Node(t, Head(kids)).type) THEN <<Head(kids)>> ELSE <<>>)
         \o NonTrivia(t, Tail(kids))

\* C7: once the AST of an error-free tree is built, every parse node under the
\* root that is not COMMENT or NEWLINE has exactly one AST counterpart, whose
\* children are the counterparts of its non-trivia children in order and which,
\* when terminal, carries the parse node's token.
C7_AstBuilderTotal ==
    pc \in {"run", "block", "ran"} =>
        \A i \in 0..(Len(tree) - 1) :
            (Attached(tree, i) /\ ShouldIncludeNode(Node(tree, i).type)) =>
                /\ Cardinality(Counterparts(i)) = 1
                /\ \A j \in Counterparts(i) :
                       /\ AstChildrenFrom(j) = NonTrivia(tree, Children(tree, i))
                       /\ Node(tree, i).type \in {"IDENTIFIER", "STRING_LITERAL",
                                                   "BOOLEAN_LITERAL"} =>
                              Node(ast.nodes, j).token = Node(tree, i).token

\* No node of the AST a was converted from a COMMENT or NEWLINE node of tree t.
NoTriviaIn(a, t) ==
    \A j \in 1..Len(a.nodes) :
        /\ a.nodes[j].from \in 0..(Len(t) - 1)
        /\ Node(t, a.nodes[j].from).type \notin {"COMMENT", "NEWLINE"}

\* C8: the AST built from a parse tree (the one command_run builds, and the one
\* build_ast_from_parse_tree makes of any tree parse returns, errors or not)
\* holds no node converted from a COMMENT or NEWLINE parse node.
C8_NoTriviaInAst ==
    /\ pc \in {"run", "block", "ran"} => NoTriviaIn(ast, tree)
    /\ pc = "parsed" => NoTriviaIn(BuildAstFromParseTree(tree), tree)

\* C8 witness: an AST has been built from a tree that holds COMMENT and NEWLINE
\* nodes inside a block.
C8_Witness ==
    /\ pc = "ran"
    /\ Len(ast.nodes) > 3
    /\ \E i \in 1..Len(tree) :
           /\ tree[i].type = "COMMENT"
           /\ tree[i].parent # -1
           /\ Node(tree, tree[i].parent).type = "BLOCK"

(***************************************************************************)
(* Properties of the interpreter                                           *)
(***************************************************************************)
IsPrefix(s, q) == Len(s) <= Len(q) /\ SubSeq(q, 1, Len(s)) = s

\* The children of main's block, in the order of the AST (that of the source).
MainStatements ==
    SiblingsFrom(ast.nodes, EnterProgram(ast.nodes, CreateInterpreter, ast.root).child)

\* C13: the statements run are the first statements of main's block, in order;
\* only the last one run can have failed, and then the run returns its non-zero
\* result at once; the failing statement writes and binds nothing, what was
\* written before stays written, and nothing happens once the run has returned.
C13_StopsAtFirstError ==
    /\ [](pc \in {"block", "ran"} /\ EnterProgram(ast.nodes, CreateInterpreter, ast.root).r.rc = 0 =>
             LET ran == block.ran
             IN  /\ Len(ran) <= Len(MainStatements)
                 /\ \A k \in 1..Len(ran) : ran[k].node = MainStatements[k]
                 /\ \A k \in 1..(Len(ran) - 1) : ran[k].rc = 0
                 /\ pc = "block" => \A k \in 1..Len(ran) : ran[k].rc = 0
                 /\ pc = "ran" =>
                        IF exit = 0
                        THEN Len(ran) = Len(MainStatements) /\ \A k \in 1..Len(ran) : ran[k].rc = 0
                        ELSE ran # <<>> /\ ran[Len(ran)].rc = exit)
    /\ [][pc = "block" => IsPrefix(interp.out, interp'.out)]_vars
    /\ [][pc = "block" /\ pc' = "ran" /\ exit' # 0 =>
              interp'.out = interp.out /\ interp'.variables = interp.variables]_vars
    /\ [][pc = "ran" => interp' = interp /\ block' = block /\ exit' = exit]_vars

\* print("a"), then print(x) with x unbound, then print("a"): the run has returned
\* 1 after the second statement with one a written.
C13_Witness ==
    /\ pc = "ran"
    /\ exit = 1
    /\ lexer.source = L_Function \o St_PrintLiteral \o St_PrintX \o St_PrintLiteral \o L_Close
    /\ Len(block.ran) = 2
    /\ interp.out = <<"a">>
    /\ interp.err # <<>>

\* The name a declaration declares.
DeclaredName(node_idx) == Node(ast.nodes, Node(ast.nodes, node_idx).first_child).token.text

\* The names declared by the declarations that have succeeded so far.
DeclaredNames ==
    {DeclaredName(block.ran[k].node) :
        k \in {n \in 1..Len(block.ran) :
                  block.ran[n].rc = 0 /\ Node(ast.nodes, block.ran[n].node).type = "AST_VAR_DECL"}}

\* C14: the store holds one binding per name declared; a declaration that
\* succeeds binds its name to the value of its expression, in the place the name
\* already had if it was bound and at the end otherwise, and leaves every other
\* binding alone; a declaration that fails changes nothing.
C14_OneBindingPerName ==
    /\ [](pc \in {"block", "ran"} =>
             /\ \A i, j \in 1..Len(interp.variables) :
                    interp.variables[i].name = interp.variables[j].name => i = j
             /\ {interp.variables[i].name : i \in 1..Len(interp.variables)} = DeclaredNames
             /\ Len(interp.variables) = Cardinality(DeclaredNames))
    /\ [][pc = "block" /\ HasAstNode(ast.nodes, block.child)
             /\ Node(ast.nodes, block.child).type = "AST_VAR_DECL" =>
              LET name == DeclaredName(block.child)
                  was == LookupVariable(interp, name)
                  now == LookupVariable(interp', name)
                  value == EvaluateExpression(ast.nodes, interp,
                               Node(ast.nodes, Node(ast.nodes, block.child).first_child).next_sibling)
              IN  IF pc' = "ran"
                  THEN interp'.variables = interp.variables
                  ELSE /\ value.rc = 0
                       /\ now = IF was # 0 THEN was ELSE Len(interp.variables) + 1
                       /\ Len(interp'.variables) = IF was # 0 THEN Len(interp.variables)
                                                   ELSE Len(interp.variables) + 1
                       /\ interp'.variables[now].type = value.type
                       /\ value.type = "VALUE_STRING" =>
                              interp'.variables[now].string_value = value.string
                       /\ value.type = "VALUE_BOOLEAN" =>
                              interp'.variables[now].bool_value = value.bool
                       /\ \A i \in 1..Len(interp.variables) :
                              i # now => interp'.variables[i] = interp.variables[i]]_vars

\* x : "s", then x : true, then print(x): one binding, a boolean, and true printed.
C14_Witness ==
    /\ pc = "ran"
    /\ exit = 0
    /\ lexer.source = L_Function \o St_XString \o St_XTrue \o St_PrintX \o L_Close
    /\ Len(interp.variables) = 1
    /\ interp.variables[1].type = "VALUE_BOOLEAN"
    /\ interp.variables[1].bool_value = TRUE
    /\ interp.out = <<"t", "r", "u", "e">>

\* The top-level function declarations whose identifier is main, as positions
\* among the children of the program node.
TopLevel == SiblingsFrom(ast.nodes, Node(ast.nodes, ast.root).first_child)
NamedMain(node_idx) ==
    /\ Node(ast.nodes, node_idx).type = "AST_FUNCTION_DECL"
    /\ Node(ast.nodes, Node(ast.nodes, node_idx).first_child).token.text = <<"m","a","i","n">>
MainPositions == {i \in 1..Len(TopLevel) : NamedMain(TopLevel[i])}

\* The top-level declaration a statement belongs to: the parent of its block.
DeclarationOf(node_idx) == Node(ast.nodes, Node(ast.nodes, node_idx).parent).parent

\* C16: every statement a run executes is a child of the block of the first
\* top-level function called main, and a run that returns 0 has executed all of
\* them; a program without such a function returns non-zero having executed no
\* statement, written nothing and bound nothing.
C16_OnlyMainRuns ==
    pc \in {"block", "ran"} =>
        IF MainPositions = {}
        THEN /\ pc = "ran"
             /\ exit # 0
             /\ block.ran = <<>>
             /\ interp.out = <<>>
             /\ interp.variables = <<>>
        ELSE LET main == TopLevel[CHOOSE i \in MainPositions : \A j \in MainPositions : i <= j]
                 body == CHOOSE b \in 0..(Len(ast.nodes) - 1) :
                             Node(ast.nodes, b).type = "AST_BLOCK" /\ Node(ast.nodes, b).parent = main
             IN  /\ \A k \in 1..Len(block.ran) :
                        /\ DeclarationOf(block.ran[k].node) = main
                        /\ Node(ast.nodes, block.ran[k].node).parent = body
                 /\ pc = "ran" /\ exit = 0 =>
                        [k \in 1..Len(block.ran) |-> block.ran[k].node] = Children(ast.nodes, body)

\* A function called other, then main, then a call at top level: the run has
\* returned 0 and only what main prints was written.
C16_Witness ==
    /\ pc = "ran"
    /\ exit = 0
    /\ lexer.source = P_TwoFunctions
    /\ Len(block.ran) = 1
    /\ interp.out = <<"m">>

\* C17: once the parser has recorded an error no AST is ever built and the
\* interpreter never starts; when the parse has returned with errors the next
\* thing the command does is return 1, and nothing has been written by the
\* program then or later.
C17_NoRunAfterSyntaxErrors ==
    /\ [](errors # <<>> =>
             /\ ast = NoAst
             /\ interp = CreateInterpreter
             /\ pc \notin {"run", "block", "ran"})
    /\ [](pc = "syntax_errors" => errors # <<>> /\ exit = 1 /\ interp.out = <<>>)
    /\ [][pc = "parsed" /\ errors # <<>> => pc' = "syntax_errors" /\ exit' = 1]_vars
    /\ [][pc = "syntax_errors" => pc' = "syntax_errors" /\ exit' = exit /\ interp' = interp]_vars

\* The missing-brace program, whose second line is a well-formed print: the
\* command has returned 1 with two errors, no AST and nothing written.
C17_Witness ==
    /\ pc = "syntax_errors"
    /\ lexer.source = S5_MissingBrace
    /\ Len(errors) = 2
    /\ exit = 1
    /\ ast = NoAst
    /\ interp.out = <<>>

(***************************************************************************)
(* SpecLex: command_lex (src/src/main.c) on every source of at most        *)
(* MaxPieces pieces.  consumed lists the tokens print_tokens has printed.  *)
(***************************************************************************)
LexPieces ==
    {<<"a">>, <<" ">>, <<NL>>, <<BTICK>>, <<"{">>, <<"}">>, <<"@">>, <<DQUOTE>>,
     <<"/", "/">>, <<"=", "=", "=", "=">>}

MaxPieces == 3

\* print_tokens' loop is followed for at most MaxCalls tokens.
MaxCalls == 5

RECURSIVE PieceSources(_)
PieceSources(n) ==
    IF n = 0 THEN {<<>>}
    ELSE PieceSources(n - 1) \cup {p \o l : p \in PieceSources(n - 1), l \in LexPieces}

\* The kinds an unassigned Token may turn out to have.
GarbageKinds == {"EOF", "UNKNOWN", "IDENTIFIER"}

\* lexer->current_token = next_token(lexer), the kind of a Token that was never
\* assigned being kind.
ReadTokenAs(lx, kind) ==
    LET next == ReadToken(lx)
    IN  IF next.current_token.type = "UNINITIALIZED"
        THEN [next EXCEPT !.current_token.type = kind]
        ELSE next

InitLex ==
    \E source \in PieceSources(MaxPieces) :
        /\ lexer = NewLexer(source)
        /\ pc = "lex_start"
        /\ stack = <<>>
        /\ tree = <<>>
        /\ errors = <<>>
        /\ consumed = <<>>
        /\ fmt = CreateFormatter
        /\ ast = NoAst
        /\ interp = CreateInterpreter
        /\ exit = -1
        /\ expr = <<>>
        /\ strings = NoStrings
        /\ array = NoArray
        /\ block = NoBlock
        /\ arena = NoArena

\* create_lexer reads the first token.
LexCreate ==
    /\ pc = "lex_start"
    /\ \E kind \in GarbageKinds : lexer' = ReadTokenAs(lexer, kind)
    /\ pc' = IF lexer'.hung THEN "hung" ELSE "lex"
    /\ UNCHANGED <<arena, stack, tree, errors, consumed, fmt, ast, interp, exit, expr, strings, array, block>>

\* One iteration of print_tokens: print the current token, read the next.
LexPrintToken ==
    /\ pc = "lex"
    /\ lexer.current_token.type # "EOF"
    /\ Len(consumed) < MaxCalls
    /\ consumed' = Append(consumed, [tok |-> lexer.current_token, by |-> "print"])
    /\ \E kind \in GarbageKinds : lexer' = ReadTokenAs(lexer, kind)
    /\ pc' = IF lexer'.hung THEN "hung" ELSE "lex"
    /\ UNCHANGED <<arena, stack, tree, errors, fmt, ast, interp, exit, expr, strings, array, block>>

\* print_tokens sees TOKEN_EOF: command_lex returns 0.
LexReturn ==
    /\ pc = "lex"
    /\ lexer.current_token.type = "EOF"
    /\ pc' = "lexed"
    /\ exit' = 0
    /\ UNCHANGED <<arena, lexer, stack, tree, errors, consumed, fmt, ast, interp, expr, strings, array, block>>

NextLex == LexCreate \/ LexPrintToken \/ LexReturn

SpecLex == InitLex /\ [][NextLex]_vars

\* A step of SpecLex in which next_token was called.
LexCalled == pc \in {"lex_start", "lex"} /\ pc' # "lexed"

\* C2: every call of next_token returns, and a call that does not return EOF
\* leaves the lexer's position strictly beyond where it was.
C2_NextTokenAdvances ==
    [][LexCalled =>
          /\ ~lexer'.hung
          /\ lexer'.current_token.type # "EOF" => lexer'.position > lexer.position]_vars

(***************************************************************************)
(* SpecExpr: the PARSE_EXPRESSION case of parse() run on every well-formed *)
(* infix expression of at most MaxExprTokens tokens, handed to the parser  *)
(* as a token stream that ends in EOF.  expr keeps the tokens given.       *)
(***************************************************************************)
MaxExprTokens == 6

UnaryTokens == {"MINUS", "NOT"}
BinaryTokens == {"PIPE", "OR", "AND", "PLUS"}
OperandKinds == <<"TRUE", "FALSE", "STRING", "IDENTIFIER">>

\* The token-kind sequences of length k after which an operand must follow
\* (AwaitOperand) and those that end in an operand (AfterOperand): the latter are
\* the well-formed expressions.
RECURSIVE AwaitOperand(_)
RECURSIVE AfterOperand(_)
AwaitOperand(k) ==
    IF k = 0 THEN {<<>>}
    ELSE {Append(p, u) : p \in AwaitOperand(k - 1), u \in UnaryTokens}
         \cup {Append(p, b) : p \in AfterOperand(k - 1), b \in BinaryTokens}

AfterOperand(k) ==
    IF k = 0 THEN {} ELSE {Append(p, "OPERAND") : p \in AwaitOperand(k - 1)}

WellFormedExprs == UNION {AfterOperand(k) : k \in 1..MaxExprTokens}

\* The token of kind type the lexer makes at column i (new_token for keywords and
\* punctuation, new_token_from_text for identifiers and strings).
ExprToken(type, i) ==
    [type |-> type,
     text |-> CASE type = "IDENTIFIER" -> <<"a">>
                [] type = "STRING" -> <<DQUOTE, "s", DQUOTE>>
                [] OTHER -> NoText,
     line |-> 1, column |-> i]

\* The tokens of an expression, the operand kinds taken in turn from offset on,
\* then EOF.
ExprTokens(types, offset) ==
    [i \in 1..(Len(types) + 1) |->
        IF i > Len(types) THEN ExprToken("EOF", i)
        ELSE IF types[i] = "OPERAND" THEN ExprToken(OperandKinds[((i + offset) % 4) + 1], i)
        ELSE ExprToken(types[i], i)]

\* A lexer whose current token is tok.
LexerAt(tok) == [NewLexer(<<>>) EXCEPT !.current_token = tok]

\* A lexer that returns the given tokens one by one.
TokenLexer(tokens) ==
    [LexerAt(tokens[1]) EXCEPT !.ahead = [i \in 1..(Len(tokens) - 1) |-> LexerAt(tokens[i + 1])]]

InitExpr ==
    \E types \in WellFormedExprs, offset \in 0..3 :
        /\ expr = ExprTokens(types, offset)
        /\ strings = NoStrings
        /\ array = NoArray
        /\ block = NoBlock
        /\ arena = NoArena
        /\ lexer = TokenLexer(expr)
        /\ pc = "parse"
        /\ stack = <<Frame("PARSE_EXPRESSION", 0, 0, 0)>>
        /\ tree = <<CreateNonterminalNode("PROGRAM")>>
        /\ errors = <<>>
        /\ consumed = <<>>
        /\ fmt = CreateFormatter
        /\ ast = NoAst
        /\ interp = CreateInterpreter
        /\ exit = -1

NextExpr == ParseExpression \/ ParseReturn

SpecExpr == InitExpr /\ [][NextExpr]_vars

\* ----- what the precedence table dictates, by precedence climbing over the
\* tokens: '|' < 'or' < 'and' < '+', all left-associative; '-' and 'not' prefix,
\* tighter than every binary operator.
TablePrecedence(type) ==
    CASE type = "PIPE" -> 1 [] type = "OR" -> 2 [] type = "AND" -> 3 [] type = "PLUS" -> 4

TableNodeType(type) ==
    CASE type = "PIPE" -> "PIPE_EXPR" [] type = "OR" -> "OR_EXPR" [] type = "AND" -> "AND_EXPR"
      [] type = "PLUS" -> "PLUS_EXPR" [] type = "NOT" -> "NOT_EXPR" [] type = "MINUS" -> "NEGATE_EXPR"
      [] type \in {"TRUE", "FALSE"} -> "BOOLEAN_LITERAL" [] type = "STRING" -> "STRING_LITERAL"
      [] type = "IDENTIFIER" -> "IDENTIFIER"

Shape(type, token, kids) == [type |-> type, token |-> token, kids |-> kids]

RECURSIVE TablePrimary(_, _)
TablePrimary(ts, i) ==
    IF ts[i].type \in UnaryTokens
    THEN LET operand == TablePrimary(ts, i + 1)
         IN  [tree |-> Shape(TableNodeType(ts[i].type), NoToken, <<operand.tree>>),
              next |-> operand.next]
    ELSE [tree |-> Shape(TableNodeType(ts[i].type), ts[i], <<>>), next |-> i + 1]

RECURSIVE TableClimb(_, _, _, _)
TableClimb(ts, left, i, min) ==
    IF ts[i].type \in BinaryTokens /\ TablePrecedence(ts[i].type) >= min
    THEN LET first == TablePrimary(ts, i + 1)
             right == TableClimb(ts, first.tree, first.next, TablePrecedence(ts[i].type) + 1)
         IN  TableClimb(ts, Shape(TableNodeType(ts[i].type), NoToken, <<left, right.tree>>),
                        right.next, min)
    ELSE [tree |-> left, next |-> i]

TableTree(ts) == TableClimb(ts, TablePrimary(ts, 1).tree, TablePrimary(ts, 1).next, 0).tree

\* The subtree of the parse tree at idx, as a shape.
RECURSIVE ShapeAt(_, _)
ShapeAt(t, idx) ==
    Shape(Node(t, idx).type, Node(t, idx).token,
          [k \in 1..Len(Children(t, idx)) |-> ShapeAt(t, Children(t, idx)[k])])

\* The leaves of a shape, left to right.
RECURSIVE Leaves(_)
RECURSIVE LeavesOfAll(_)
Leaves(sh) == IF sh.kids = <<>> THEN <<sh.token>> ELSE LeavesOfAll(sh.kids)
LeavesOfAll(kids) == IF kids = <<>> THEN <<>> ELSE Leaves(Head(kids)) \o LeavesOfAll(Tail(kids))

RECURSIVE OperandsOf(_)
OperandsOf(ts) ==
    IF ts = <<>> THEN <<>>
    ELSE (IF IsOperandToken(Head(ts).type) THEN <<Head(ts)>> ELSE <<>>) \o OperandsOf(Tail(ts))

\* C5: once PARSE_EXPRESSION has run on a well-formed expression there is no
\* error, the expression has exactly one root under the parent, that root's tree
\* is the one the precedence table dictates (so a tighter operator is above a
\* looser one only where it encloses it, equal binary operators nest to the left,
\* a binary node has its left operand first and its right operand second), and
\* the operand leaves, left to right, are the operands in source order.
C5_TreeFollowsPrecedence ==
    (expr # <<>> /\ consumed # <<>>) =>
        /\ errors = <<>>
        /\ stack = <<>>
        /\ Len(Children(tree, 0)) = 1
        /\ ShapeAt(tree, Children(tree, 0)[1]) = TableTree(expr)
        /\ Leaves(ShapeAt(tree, Children(tree, 0)[1])) = OperandsOf(expr)

\* C5 witness: an expression of three operands with a 'not' has been parsed
\* into a tree whose root is a binary node.
C5_Witness ==
    /\ expr # <<>> /\ pc = "parsed"
    /\ Len(OperandsOf(expr)) = 3
    /\ \E i \in 1..Len(expr) : expr[i].type = "NOT"
    /\ Len(Children(tree, 0)) = 1
    /\ Len(Children(tree, Children(tree, 0)[1])) = 2

(***************************************************************************)
(* String storage (src/src/string_storage.c).  The store is the linked     *)
(* list of StringNode from head to tail, held as a sequence; a String      *)
(* handle is the address of a node's string, written as the node's place   *)
(* in the list (nodes are never moved or freed), 0 for NULL.               *)
(***************************************************************************)
\* string_storage_init
StringStorageInit == [nodes |-> <<>>, string_count |-> 0]

\* The mutant of strings_equal: a comparison that stops at the first NUL byte.
StringsEqual_UntilNul(a, len_a, b, len_b) ==
    /\ len_a = len_b
    /\ \A i \in 1..len_a : a[i] = b[i] \/ \E j \in 1..(i - 1) : a[j] = NUL /\ b[j] = NUL

\* strings_equal: the lengths, then memcmp over len_a bytes.
StringsEqual(a, len_a, b, len_b) ==
    IF len_a # len_b THEN FALSE ELSE \A i \in 1..len_a : a[i] = b[i]

\* find_string: the first node from head whose string equals data, or NULL.
FindString(storage, data, length) ==
    LET found == {i \in 1..Len(storage.nodes) :
                     StringsEqual(storage.nodes[i].data, storage.nodes[i].length, data, length)}
    IN  IF found = {} THEN 0 ELSE CHOOSE i \in found : \A j \in found : i <= j

\* create_string: a copy of the bytes in a new node at the tail.
CreateString(storage, data, length) ==
    [nodes |-> Append(storage.nodes, [length |-> length, data |-> SubSeq(data, 1, length)]),
     string_count |-> storage.string_count + 1]

\* store_from_buffer: the storage after the call and the handle returned.
StoreFromBuffer(storage, buffer, start, count) ==
    LET data == SubSeq(buffer, start + 1, Len(buffer))
        existing == FindString(storage, data, count)
    IN  IF existing # 0 THEN [storage |-> storage, handle |-> existing]
        ELSE [storage |-> CreateString(storage, data, count),
              handle |-> Len(storage.nodes) + 1]

\* strlen: the number of bytes before the first NUL.
Strlen(cstr) == (CHOOSE i \in 1..Len(cstr) : cstr[i] = NUL /\ \A j \in 1..(i - 1) : cstr[j] # NUL) - 1

\* store_cstring
StoreCstring(storage, cstr) == StoreFromBuffer(storage, cstr, 0, Strlen(cstr))

(***************************************************************************)
(* SpecStrings: any MaxStores calls of store_from_buffer and store_cstring *)
(* on one storage, over buffers of at most MaxBuffer bytes.  strings.calls *)
(* lists, for every call made, the bytes it was given and the handle it    *)
(* returned.                                                               *)
(***************************************************************************)
MaxStores == 3

MaxBuffer == 2

StoreBytes == {"a", NUL}

Buffers == UNION {[1..n -> StoreBytes] : n \in 0..MaxBuffer}

\* C strings: bytes other than NUL, then the terminating NUL.
Cstrings == {b \in Buffers : Len(b) >= 1 /\ b[Len(b)] = NUL /\ \A i \in 1..(Len(b) - 1) : b[i] # NUL}

InitStrings ==
    /\ strings = [storage |-> StringStorageInit, calls |-> <<>>]
    /\ lexer = NewLexer(<<>>)
    /\ pc = "strings"
    /\ stack = <<>>
    /\ tree = <<>>
    /\ errors = <<>>
    /\ consumed = <<>>
    /\ fmt = CreateFormatter
    /\ ast = NoAst
    /\ interp = CreateInterpreter
    /\ exit = -1
    /\ expr = <<>>
    /\ array = NoArray
    /\ block = NoBlock
    /\ arena = NoArena

Stored(r, content, by) ==
    /\ strings' = [storage |-> r.storage,
                   calls |-> Append(strings.calls,
                                    [content |-> content, handle |-> r.handle, by |-> by])]
    /\ UNCHANGED <<arena, lexer, pc, stack, tree, errors, consumed, fmt, ast, interp, exit, expr,
                   array, block>>

StoreBuffer ==
    /\ pc = "strings"
    /\ Len(strings.calls) < MaxStores
    /\ \E buffer \in Buffers, start \in 0..MaxBuffer, count \in 0..MaxBuffer :
           /\ start + count <= Len(buffer)
           /\ Stored(StoreFromBuffer(strings.storage, buffer, start, count),
                     SubSeq(buffer, start + 1, start + count), "store_from_buffer")

StoreString ==
    /\ pc = "strings"
    /\ Len(strings.calls) < MaxStores
    /\ \E cstr \in Cstrings :
           Stored(StoreCstring(strings.storage, cstr), SubSeq(cstr, 1, Len(cstr) - 1),
                  "store_cstring")

NextStrings == StoreBuffer \/ StoreString

SpecStrings == InitStrings /\ [][NextStrings]_vars

\* C11: two calls return the same handle exactly when they were given the same
\* bytes (embedded NUL bytes count); no two records of the store hold the same
\* bytes; string_count is the number of distinct contents presented so far.
C11_InterningIsInjective ==
    pc = "strings" =>
        LET calls == strings.calls
            nodes == strings.storage.nodes
        IN  /\ \A i, j \in 1..Len(calls) :
                   (calls[i].handle = calls[j].handle) <=> (calls[i].content = calls[j].content)
            /\ \A i \in 1..Len(calls) :
                   /\ calls[i].handle \in 1..Len(nodes)
                   /\ nodes[calls[i].handle].data = calls[i].content
                   /\ nodes[calls[i].handle].length = Len(calls[i].content)
            /\ \A m, n \in 1..Len(nodes) : m # n => nodes[m].data # nodes[n].data
            /\ strings.storage.string_count = Cardinality({calls[i].content : i \in 1..Len(calls)})
            /\ strings.storage.string_count = Len(nodes)

\* Three calls, two of them with the same bytes, the third with bytes that differ
\* from those only after a NUL byte.
C11_Witness ==
    /\ pc = "strings"
    /\ Len(strings.calls) = 3
    /\ strings.calls[1].content = <<NUL, "a">>
    /\ strings.calls[2].content = <<NUL, NUL>>
    /\ strings.calls[3].content = <<NUL, "a">>
    /\ strings.calls[1].handle = strings.calls[3].handle
    /\ strings.calls[1].handle # strings.calls[2].handle
    /\ strings.storage.string_count = 2

(***************************************************************************)
(* Chunked array (src/src/array.c).  The chunks from head to tail are a    *)
(* sequence; a chunk is its address (what malloc returned: nothing is      *)
(* freed before array_free, so the n-th allocation is written n) and its   *)
(* cells.  An element is written as one value of element_size bytes; the   *)
(* address of an element is its chunk's address and a byte offset.         *)
(* PAGE_SIZE of array.h is 4096, as that of formatter.h.                   *)
(***************************************************************************)
LARGE_CHUNK_ELEMENTS == 20

NullArray == [null |-> TRUE]

\* A null pointer passed where an element is expected.
NullElement == "NULL"

\* The mutant of array_init: an element of exactly a page counted as small.
ArrayInit_PageInclusive(element_size) ==
    IF element_size = 0 THEN NullArray
    ELSE [null |-> FALSE, chunks |-> <<>>, tail |-> 0, element_size |-> element_size,
          length |-> 0, capacity |-> 0,
          elements_per_chunk |-> IF element_size <= PAGE_SIZE
                                 THEN PAGE_SIZE \div element_size
                                 ELSE LARGE_CHUNK_ELEMENTS]

\* array_init; tail is the address of the tail chunk, 0 for NULL.
ArrayInit(element_size) ==
    IF element_size = 0 THEN NullArray
    ELSE [null |-> FALSE, chunks |-> <<>>, tail |-> 0, element_size |-> element_size, length |-> 0,
          capacity |-> 0,
          elements_per_chunk |-> IF element_size < PAGE_SIZE
                                 THEN PAGE_SIZE \div element_size
                                 ELSE LARGE_CHUNK_ELEMENTS]

\* array_chunk_alloc: a chunk of chunk_size bytes at a fresh address.
ArrayChunkAlloc(element_size, elements_per_chunk, address) ==
    LET chunk_size == IF element_size < PAGE_SIZE THEN PAGE_SIZE
                      ELSE element_size * elements_per_chunk
    IN  [address |-> address,
         data |-> [i \in 1..(chunk_size \div element_size) |-> Indeterminate]]

\* The mutant of array_append: growing by moving every chunk to new memory.
ArrayAppend_Moving(A, element, alloc_ok) ==
    IF A.length >= A.capacity
    THEN LET n == Len(A.chunks)
             moved == [i \in 1..n |-> [A.chunks[i] EXCEPT !.address = n + i]]
             fresh == ArrayChunkAlloc(A.element_size, A.elements_per_chunk, 2 * n + 1)
             chunk_index == A.length \div A.elements_per_chunk
             element_offset == A.length % A.elements_per_chunk
             chunks == Append(moved, fresh)
         IN  [array |-> [A EXCEPT !.chunks = [chunks EXCEPT
                                       ![chunk_index + 1].data[element_offset + 1] = element],
                                  !.capacity = @ + A.elements_per_chunk,
                                  !.length = @ + 1],
              result |-> TRUE]
    ELSE LET chunk_index == A.length \div A.elements_per_chunk
             element_offset == A.length % A.elements_per_chunk
         IN  [array |-> [A EXCEPT !.chunks[chunk_index + 1].data[element_offset + 1] = element,
                                  !.length = @ + 1],
              result |-> TRUE]

\* array_append; alloc_ok = FALSE: malloc fails when a chunk is needed.
ArrayAppend(A, element, alloc_ok) ==
    IF A.null \/ element = NullElement THEN [array |-> A, result |-> FALSE]
    ELSE IF A.length >= A.capacity /\ ~alloc_ok THEN [array |-> A, result |-> FALSE]
    ELSE LET grown == IF A.length >= A.capacity
                      THEN [A EXCEPT !.chunks = Append(@, ArrayChunkAlloc(A.element_size,
                                                           A.elements_per_chunk, Len(@) + 1)),
                                     !.tail = Len(A.chunks) + 1,
                                     !.capacity = @ + A.elements_per_chunk]
                      ELSE A
             chunk_index == grown.length \div grown.elements_per_chunk
             element_offset == grown.length % grown.elements_per_chunk
         IN  [array |-> [grown EXCEPT !.chunks[chunk_index + 1].data[element_offset + 1] = element,
                                      !.length = @ + 1],
              result |-> TRUE]

NullAddress == [chunk |-> 0, offset |-> 0]

\* array_get: the address of element index, NULL beyond the length.
ArrayGet(A, index) ==
    IF A.null \/ index >= A.length THEN NullAddress
    ELSE [chunk |-> A.chunks[index \div A.elements_per_chunk + 1].address,
          offset |-> (index % A.elements_per_chunk) * A.element_size]

\* The element_size bytes at an address array_get returned.
ElementAt(A, address) ==
    LET c == CHOOSE i \in 1..Len(A.chunks) : A.chunks[i].address = address.chunk
    IN  A.chunks[c].data[address.offset \div A.element_size + 1]

\* The mutant of array_set: the index checked against the capacity.
ArraySet_WithinCapacity(A, index, element) ==
    IF A.null \/ element = NullElement \/ index >= A.capacity THEN [array |-> A, result |-> FALSE]
    ELSE [array |-> [A EXCEPT !.chunks[index \div A.elements_per_chunk + 1]
                                 .data[(index % A.elements_per_chunk) + 1] = element],
          result |-> TRUE]

\* array_set
ArraySet(A, index, element) ==
    IF A.null \/ element = NullElement \/ index >= A.length
    THEN [array |-> A, result |-> FALSE]
    ELSE [array |-> [A EXCEPT !.chunks[index \div A.elements_per_chunk + 1]
                                 .data[(index % A.elements_per_chunk) + 1] = element],
          result |-> TRUE]

\* The mutant of array_pop: the first element is copied out.
ArrayPop_First(A) ==
    IF A.null \/ A.length = 0 THEN [array |-> A, result |-> FALSE, out |-> Indeterminate]
    ELSE [array |-> [A EXCEPT !.length = @ - 1], result |-> TRUE,
          out |-> ElementAt(A, ArrayGet(A, 0))]

\* array_pop: the last element is copied to out_element (which is left unwritten
\* when the call fails); it stays in memory, the length drops.
ArrayPop(A) ==
    IF A.null \/ A.length = 0 THEN [array |-> A, result |-> FALSE, out |-> Indeterminate]
    ELSE [array |-> [A EXCEPT !.length = @ - 1], result |-> TRUE,
          out |-> ElementAt(A, ArrayGet(A, A.length - 1))]

\* The mutant of array_clear: the chunks are given up with the elements.
ArrayClear_Releasing(A) == IF A.null THEN A ELSE [A EXCEPT !.length = 0, !.capacity = 0, !.chunks = <<>>]

\* array_clear
ArrayClear(A) == IF A.null THEN A ELSE [A EXCEPT !.length = 0]

(***************************************************************************)
(* SpecArray: any MaxArrayCalls calls of append, set, pop and clear on one *)
(* array.  array.A is the Array, array.op the last call made on it.        *)
(***************************************************************************)
MaxArrayCalls == 6

\* Element sizes that put 2 and 1 elements in a page, and one of a page (20 per chunk).
ElementSizes == {2048, 4095, 4096}

Elements == {"u", "v"}

\* array.A is the Array, array.op the last call made on it with its arguments in
\* array.index and array.element, array.result and array.out what it returned.
\* array.appended records, while only appends and pops have been called
\* (array.stack_only), the elements appended and not popped since;
\* array.longest is the largest length the array has had.
InitArray ==
    \E element_size \in ElementSizes :
        /\ array = [A |-> ArrayInit(element_size), op |-> "array_init", calls |-> 0,
                    index |-> 0, element |-> Indeterminate, result |-> TRUE,
                    out |-> Indeterminate, appended |-> <<>>, stack_only |-> TRUE,
                    longest |-> 0]
        /\ lexer = NewLexer(<<>>)
        /\ pc = "array"
        /\ stack = <<>>
        /\ tree = <<>>
        /\ errors = <<>>
        /\ consumed = <<>>
        /\ fmt = CreateFormatter
        /\ ast = NoAst
        /\ interp = CreateInterpreter
        /\ exit = -1
        /\ expr = <<>>
        /\ strings = NoStrings
        /\ block = NoBlock
        /\ arena = NoArena

Called(call) ==
    /\ pc = "array"
    /\ array.calls < MaxArrayCalls
    /\ array' = [call EXCEPT !.calls = array.calls + 1,
                             !.stack_only = array.stack_only /\ @,
                             !.longest = IF call.A.length > @ THEN call.A.length ELSE @,
                             !.appended = IF array.stack_only /\ call.stack_only THEN @ ELSE <<>>]
    /\ UNCHANGED <<arena, lexer, pc, stack, tree, errors, consumed, fmt, ast, interp, exit, expr,
                   strings, block>>

CallAppend ==
    \E element \in Elements \cup {NullElement}, alloc_ok \in BOOLEAN :
        LET r == ArrayAppend(array.A, element, alloc_ok)
        IN  Called([array EXCEPT !.A = r.array, !.op = "array_append", !.element = element,
                                 !.index = 0, !.result = r.result, !.out = Indeterminate,
                                 !.stack_only = TRUE,
                                 !.appended = IF r.result THEN Append(@, element) ELSE @])

CallSet ==
    \E index \in 0..MaxArrayCalls, element \in Elements \cup {NullElement} :
        LET r == ArraySet(array.A, index, element)
        IN  Called([array EXCEPT !.A = r.array, !.op = "array_set", !.element = element,
                                 !.index = index, !.result = r.result, !.out = Indeterminate,
                                 !.stack_only = FALSE])

CallPop ==
    LET r == ArrayPop(array.A)
    IN  Called([array EXCEPT !.A = r.array, !.op = "array_pop", !.element = Indeterminate,
                             !.index = 0, !.result = r.result, !.out = r.out,
                             !.stack_only = TRUE,
                             !.appended = IF r.result /\ @ # <<>>
                                          THEN SubSeq(@, 1, Len(@) - 1) ELSE @])

CallClear ==
    Called([array EXCEPT !.A = ArrayClear(array.A), !.op = "array_clear",
                         !.element = Indeterminate, !.index = 0, !.result = TRUE,
                         !.out = Indeterminate, !.stack_only = FALSE])

NextArray == CallAppend \/ CallSet \/ CallPop \/ CallClear

SpecArray == InitArray /\ [][NextArray]_vars

\* C12: across an array_append, for every index below the length before the call,
\* array_get returns the same address and the element at that address is the same.
C12_AppendKeepsElements ==
    [][array'.op = "array_append" /\ array'.calls = array.calls + 1 =>
          \A i \in 0..(array.A.length - 1) :
              /\ ArrayGet(array'.A, i) # NullAddress
              /\ ArrayGet(array'.A, i) = ArrayGet(array.A, i)
              /\ ElementAt(array'.A, ArrayGet(array'.A, i)) = ElementAt(array.A, ArrayGet(array.A, i))
              /\ ElementAt(array'.A, ArrayGet(array'.A, i)) \in Elements]_vars

\* An append that allocated the second chunk while two elements were held, after
\* other calls.
C12_Witness ==
    /\ pc = "array"
    /\ array.op = "array_append"
    /\ array.calls = 5
    /\ array.A.length = 3
    /\ Len(array.A.chunks) = 2
    /\ array.A.elements_per_chunk = 2

\* A call was made on the array (the step is no stuttering step).
ArrayCalled(op) == array'.op = op /\ array'.calls = array.calls + 1

\* C21: while only array_append and array_pop have been called, a pop succeeds
\* exactly when some appended element is not yet popped; it then copies out the
\* most recently appended of them and the length drops by one; on an empty array
\* it returns false and the length stays 0.  The length is the number of elements
\* appended and not popped.
C21_StackDiscipline ==
    /\ [](array.stack_only => array.A.length = Len(array.appended))
    /\ [][ArrayCalled("array_pop") /\ array.stack_only =>
              IF array.appended # <<>>
              THEN /\ array'.result
                   /\ array'.out = array.appended[Len(array.appended)]
                   /\ array'.A.length = array.A.length - 1
              ELSE /\ ~array'.result
                   /\ array.A.length = 0
                   /\ array'.A.length = 0]_vars

\* u, v, u appended one element per chunk, then two pops: the second returned v
\* and u is left.
C21_Witness ==
    /\ array.op = "array_pop"
    /\ array.stack_only
    /\ array.calls = 5
    /\ array.result
    /\ array.out = "v"
    /\ array.appended = <<"u">>
    /\ array.A.elements_per_chunk = 1
    /\ Len(array.A.chunks) = 3

\* The elements of an array, by index.
ElementsOf(A) == [i \in 1..A.length |-> ElementAt(A, ArrayGet(A, i - 1))]

\* C22: array_get returns an address exactly for the indices below the length;
\* array_set of an element at an index not below the length returns false and
\* changes nothing, and at an index below it returns true and changes that
\* element only, length, capacity and chunks staying as they were.
C22_GetAndSetBounds ==
    /\ [](\A i \in 0..(MaxArrayCalls + 1) :
              ArrayGet(array.A, i) # NullAddress <=> i < array.A.length)
    /\ [][ArrayCalled("array_set") /\ array'.element # NullElement =>
              IF array'.index >= array.A.length
              THEN ~array'.result /\ array'.A = array.A
              ELSE /\ array'.result
                   /\ array'.A.length = array.A.length
                   /\ array'.A.capacity = array.A.capacity
                   /\ Len(array'.A.chunks) = Len(array.A.chunks)
                   /\ \A i \in 0..(array.A.capacity - 1) :
                          IF i = array'.index
                          THEN ElementAt(array'.A, ArrayGet(array'.A, i)) = array'.element
                          ELSE array'.A.chunks[i \div array.A.elements_per_chunk + 1]
                                   .data[(i % array.A.elements_per_chunk) + 1]
                               = array.A.chunks[i \div array.A.elements_per_chunk + 1]
                                   .data[(i % array.A.elements_per_chunk) + 1]]_vars

\* Three elements u in two chunks, the middle one set to v.
C22_Witness ==
    /\ array.op = "array_set"
    /\ array.result
    /\ array.index = 1
    /\ array.A.elements_per_chunk = 2
    /\ ElementsOf(array.A) = <<"u", "v", "u">>

\* C23: array_clear leaves length 0 and capacity and chunks as they were; an
\* append to an array whose length is below its capacity succeeds without
\* allocating (even when no memory could be had), in the chunks already there,
\* and a chunk is added only by an append made at length = capacity.
C23_ClearKeepsChunks ==
    /\ [][ArrayCalled("array_clear") =>
              /\ array'.A.length = 0
              /\ array'.A.capacity = array.A.capacity
              /\ array'.A.chunks = array.A.chunks]_vars
    /\ [][ArrayCalled("array_append") /\ array'.element # NullElement =>
              IF array.A.length < array.A.capacity
              THEN /\ array'.result
                   /\ array'.A.capacity = array.A.capacity
                   /\ Len(array'.A.chunks) = Len(array.A.chunks)
                   /\ \A c \in 1..Len(array.A.chunks) :
                          array'.A.chunks[c].address = array.A.chunks[c].address
              ELSE array'.result =>
                       /\ Len(array'.A.chunks) = Len(array.A.chunks) + 1
                       /\ array'.A.capacity = array.A.capacity + array.A.elements_per_chunk]_vars
    /\ [][~ArrayCalled("array_append") => Len(array'.A.chunks) = Len(array.A.chunks)]_vars

\* Two chunks of one element filled, a clear, then two appends: still two chunks.
C23_Witness ==
    /\ array.op = "array_append"
    /\ array.calls = 5
    /\ ~array.stack_only
    /\ array.A.elements_per_chunk = 1
    /\ array.A.length = 2
    /\ array.A.capacity = 2
    /\ Len(array.A.chunks) = 2

(***************************************************************************)
(* Match expressions.  build_ast_from_parse_tree maps no MATCH node, so     *)
(* evaluate_expression is applied to trees put together with the functions  *)
(* of ast.c, their terminals carrying the tokens the lexer returns.         *)
(***************************************************************************)
MaxArms == 2

M_True == <<"t","r","u","e">>
M_False == <<"f","a","l","s","e">>
M_DoubleA == <<DQUOTE, "a", DQUOTE>>
M_SingleA == <<SQUOTE, "a", SQUOTE>>
M_DoubleB == <<DQUOTE, "b", DQUOTE>>
M_Wildcard == <<"_">>
M_Bound == <<"s">>
M_Unbound == <<"n","o","p","e">>

MatchSubjects == {M_True, M_False, M_DoubleA, M_SingleA, M_Bound, M_Unbound}
MatchPatterns == {M_Wildcard, M_True, M_False, M_DoubleA, M_SingleA}
MatchBodies == {M_True, M_DoubleB, M_Unbound}

\* The AST node type of a terminal, from the kind of its token.
TerminalType(token_type) ==
    CASE token_type = "TRUE" -> "AST_BOOLEAN_LITERAL"
      [] token_type = "FALSE" -> "AST_BOOLEAN_LITERAL"
      [] token_type = "STRING" -> "AST_STRING_LITERAL"
      [] token_type = "UNDERSCORE" -> "AST_MATCH_WILDCARD"
      [] OTHER -> "AST_IDENTIFIER"

\* The terminal node for a source text that is one token.
Terminal(source) ==
    LET token == NextToken(NewLexer(source)).tok
    IN  CreateAstTerminal(TerminalType(token.type), token)

\* add_ast_node followed by add_ast_child(parent_idx, the new node).
AddUnder(a, parent_idx, node) == AddAstChild(Append(a, node), parent_idx, Len(a))

\* The arms, each a pair <<pattern, body>> of source texts, added in order under
\* the match node at index 0.
RECURSIVE AddArms(_, _)
AddArms(a, arms) ==
    IF arms = <<>> THEN a
    ELSE LET a1 == AddUnder(a, 0, CreateAstNonterminal("AST_MATCH_ARM"))
             a2 == AddUnder(a1, Len(a), Terminal(Head(arms)[1]))
             a3 == AddUnder(a2, Len(a), Terminal(Head(arms)[2]))
         IN  AddArms(a3, Tail(arms))

MatchTree(subject, arms) ==
    AddArms(AddUnder(<<CreateAstNonterminal("AST_MATCH_EXPR")>>, 0, Terminal(subject)), arms)

RECURSIVE ArmLists(_)
ArmLists(n) ==
    IF n = 0 THEN {<<>>}
    ELSE ArmLists(n - 1) \cup
         {Append(l, <<p, b>>) : l \in {x \in ArmLists(n - 1) : Len(x) = n - 1},
                                p \in MatchPatterns, b \in MatchBodies}

\* An interpreter in which s is bound to a string.
MatchInterpreter == StoreVariable(CreateInterpreter, M_Bound, "VALUE_STRING", M_DoubleA, FALSE)

InitMatch ==
    \E subject \in MatchSubjects, arms \in ArmLists(MaxArms) :
        /\ ast = [nodes |-> MatchTree(subject, arms), root |-> 0]
        /\ interp = MatchInterpreter
        /\ pc = "match"
        /\ expr = <<>>
        /\ exit = -1
        /\ lexer = NewLexer(<<>>)
        /\ stack = <<>>
        /\ tree = <<>>
        /\ errors = <<>>
        /\ consumed = <<>>
        /\ fmt = CreateFormatter
        /\ strings = NoStrings
        /\ array = NoArray
        /\ block = NoBlock
        /\ arena = NoArena

\* evaluate_expression on the match node; expr keeps what the call returned.
EvaluateMatchExpression ==
    /\ pc = "match"
    /\ LET result == EvaluateExpression(ast.nodes, interp, ast.root)
       IN  /\ expr' = result
           /\ interp' = result.I
           /\ exit' = result.rc
    /\ pc' = "matched"
    /\ UNCHANGED <<arena, lexer, stack, tree, errors, consumed, fmt, ast, strings, array, block>>

NextMatch == EvaluateMatchExpression

SpecMatch == InitMatch /\ [][NextMatch]_vars

\* The subject node, the arm nodes in declaration order, and the pattern and body
\* of an arm.
SubjectIdx == Node(ast.nodes, ast.root).first_child
ArmIdxs == SiblingsFrom(ast.nodes, Node(ast.nodes, SubjectIdx).next_sibling)
PatternOf(arm_idx) == Node(ast.nodes, Node(ast.nodes, arm_idx).first_child)
BodyIdx(arm_idx) == PatternOf(arm_idx).next_sibling

\* The subject's value, and whether the pattern of an arm matches it.
SubjectValue == EvaluateExpression(ast.nodes, MatchInterpreter, SubjectIdx)
Selects(arm_idx) ==
    LET pattern == PatternOf(arm_idx)
    IN  \/ pattern.type = "AST_MATCH_WILDCARD"
        \/ /\ pattern.type = "AST_BOOLEAN_LITERAL"
           /\ SubjectValue.type = "VALUE_BOOLEAN"
           /\ (pattern.token.type = "TRUE") <=> SubjectValue.bool
        \/ /\ pattern.type = "AST_STRING_LITERAL"
           /\ SubjectValue.type = "VALUE_STRING"
           /\ pattern.token.text = SubjectValue.string

NoMatchError == [message |-> "No matching pattern in match expression", name |-> NoText]

\* C15: a match expression whose subject fails fails with the subject's one error;
\* otherwise it returns exactly what evaluating the body of the first arm whose
\* pattern matches returns (wildcard: any subject; boolean literal: an equal
\* boolean; string literal: a string of identical lexeme), nothing of another
\* arm's body being evaluated and arms of another type passed over silently; when
\* no arm matches it fails with "No matching pattern in match expression".
C15_FirstMatchingArm ==
    pc = "matched" =>
        IF SubjectValue.rc # 0
        THEN expr.rc # 0 /\ expr.I = SubjectValue.I /\ Len(expr.I.err) = 1
        ELSE IF \E k \in 1..Len(ArmIdxs) : Selects(ArmIdxs[k])
        THEN LET k == CHOOSE k \in 1..Len(ArmIdxs) :
                          /\ Selects(ArmIdxs[k])
                          /\ \A j \in 1..(k - 1) : ~Selects(ArmIdxs[j])
             IN  expr = EvaluateExpression(ast.nodes, MatchInterpreter, BodyIdx(ArmIdxs[k]))
        ELSE expr.rc # 0 /\ expr.I.err = <<NoMatchError>> /\ expr.I.out = <<>>

\* A string subject, a first arm with a boolean pattern and a body that would
\* fail, a second arm with the subject's lexeme: the second body is the value.
C15_Witness ==
    /\ pc = "matched"
    /\ Len(ArmIdxs) = 2
    /\ Node(ast.nodes, SubjectIdx).token.text = M_SingleA
    /\ PatternOf(ArmIdxs[1]).token.type = "FALSE"
    /\ Node(ast.nodes, BodyIdx(ArmIdxs[1])).token.text = M_Unbound
    /\ PatternOf(ArmIdxs[2]).token.text = M_SingleA
    /\ expr.rc = 0
    /\ expr.type = "VALUE_STRING"
    /\ expr.string = M_DoubleB
    /\ expr.I.err = <<>>

(***************************************************************************)
(* print_string on the lexemes the lexer returns for string literals.       *)
(***************************************************************************)
MaxBody == 4

BodyBytes == {"a", "q", "n", "t", "r", BSLASH, DQUOTE, SQUOTE}

RECURSIVE StringBodies(_)
StringBodies(n) ==
    IF n = 0 THEN {<<>>}
    ELSE StringBodies(n - 1) \cup
         {Append(b, c) : b \in {x \in StringBodies(n - 1) : Len(x) = n - 1}, c \in BodyBytes}

\* A quote, a body and the same quote: the lexer ends the literal at the first
\* quote no backslash precedes, or at the end of the input.
InitPrint ==
    \E quote \in {DQUOTE, SQUOTE}, body \in StringBodies(MaxBody) :
        /\ lexer = NewLexer(<<quote>> \o body \o <<quote>>)
        /\ pc = "lex_string"
        /\ expr = <<>>
        /\ interp = CreateInterpreter
        /\ exit = -1
        /\ stack = <<>>
        /\ tree = <<>>
        /\ errors = <<>>
        /\ consumed = <<>>
        /\ fmt = CreateFormatter
        /\ ast = NoAst
        /\ strings = NoStrings
        /\ array = NoArray
        /\ block = NoBlock
        /\ arena = NoArena

\* next_token on the literal: expr keeps the token.
LexString ==
    /\ pc = "lex_string"
    /\ LET r == NextToken(lexer)
       IN  /\ lexer' = r.lx
           /\ expr' = r.tok
    /\ pc' = "print"
    /\ UNCHANGED <<arena, stack, tree, errors, consumed, fmt, ast, interp, exit, strings, array, block>>

\* print_string on the token's text.
PrintStringCall ==
    /\ pc = "print"
    /\ expr.type = "STRING"
    /\ interp' = PrintString(interp, expr.text)
    /\ pc' = "printed"
    /\ UNCHANGED <<arena, lexer, stack, tree, errors, consumed, fmt, ast, exit, expr, strings, array,
                   block>>

NextPrint == LexString \/ PrintStringCall

SpecPrint == InitPrint /\ [][NextPrint]_vars

\* The byte a two-byte escape denotes.
Denoted(c) ==
    CASE c = "n" -> NL
      [] c = "t" -> TAB
      [] c = "r" -> CR
      [] c = BSLASH -> BSLASH
      [] c = DQUOTE -> DQUOTE

Escapes == {"n", "t", "r", BSLASH, DQUOTE}

\* The bytes written for a content: each of the five escapes replaced by the byte
\* it denotes, any other pair of a backslash and a byte X written as unknown(X),
\* every other byte as it is.
RECURSIVE Expanded(_, _)
Expanded(content, unknown) ==
    IF content = <<>> THEN <<>>
    ELSE IF Head(content) = BSLASH /\ Len(content) >= 2
    THEN (IF content[2] \in Escapes THEN <<Denoted(content[2])>> ELSE unknown[content[2]])
             \o Expanded(SubSeq(content, 3, Len(content)), unknown)
    ELSE <<Head(content)>> \o Expanded(Tail(content), unknown)

\* The lexeme without its first and last byte.
Content == SubSeq(expr.text, 2, Len(expr.text) - 1)

\* C18, as stated: print writes the lexeme without its first and last byte, the
\* five escapes replaced by the bytes they denote, any other escape \X written as
\* the byte X alone, all other bytes unchanged and in order.
C18_UnknownEscapeDropsBackslash ==
    pc = "printed" => interp.out = Expanded(Content, [c \in BodyBytes |-> <<c>>])

\* C18, amended: the same, but any other escape \X is written as the backslash
\* followed by X.
C18_UnknownEscapeKept ==
    pc = "printed" => interp.out = Expanded(Content, [c \in BodyBytes |-> <<BSLASH, c>>])

\* "\n\q" printed: a newline, then the backslash and the q.
C18_Witness ==
    /\ pc = "printed"
    /\ expr.text = <<DQUOTE, BSLASH, "n", BSLASH, "q", DQUOTE>>
    /\ interp.out = <<NL, BSLASH, "q">>

(***************************************************************************)
(* command_lex on words: letters, digits and underscores, with blanks.      *)
(***************************************************************************)
WordPieces ==
    {<<"_">>, <<"x">>, <<"1">>, <<" ">>, <<"T">>, <<"o","r">>, <<"t","r","u","e">>,
     <<"p","a","r","t","i","a","l">>}

MaxWordPieces == 3

RECURSIVE WordSources(_)
WordSources(n) ==
    IF n = 0 THEN {<<>>}
    ELSE WordSources(n - 1) \cup {p \o l : p \in WordSources(n - 1), l \in WordPieces}

InitWords ==
    \E source \in WordSources(MaxWordPieces) :
        /\ lexer = NewLexer(source)
        /\ pc = "lex_start"
        /\ stack = <<>>
        /\ tree = <<>>
        /\ errors = <<>>
        /\ consumed = <<>>
        /\ fmt = CreateFormatter
        /\ ast = NoAst
        /\ interp = CreateInterpreter
        /\ exit = -1
        /\ expr = <<>>
        /\ strings = NoStrings
        /\ array = NoArray
        /\ block = NoBlock
        /\ arena = NoArena

SpecWords == InitWords /\ [][NextLex]_vars

\* The longest run of letters, digits and underscores of source from index i on.
RECURSIVE WordFrom(_, _)
WordFrom(source, i) ==
    IF i <= Len(source) /\ IsIdentifierChar(source[i])
    THEN <<source[i]>> \o WordFrom(source, i + 1)
    ELSE <<>>

\* The fixed keywords and their kinds.
FixedKeywords ==
    {<<"partial", "PARTIAL">>, <<"module", "MODULE">>, <<"import", "IMPORT">>,
     <<"export", "EXPORT">>, <<"return", "RETURN">>, <<"match", "MATCH">>,
     <<"false", "FALSE">>, <<"type", "TYPE">>, <<"true", "TRUE">>, <<"this", "THIS">>,
     <<"and", "AND">>, <<"try", "TRY">>, <<"or", "OR">>}

\* A lexeme as one string.
RECURSIVE Joined(_)
Joined(text) == IF text = <<>> THEN "" ELSE Head(text) \o Joined(Tail(text))

KindOfWord(word) ==
    IF \E k \in FixedKeywords : k[1] = Joined(word)
    THEN (CHOOSE k \in FixedKeywords : k[1] = Joined(word))[2]
    ELSE "IDENTIFIER"

\* The lexer as next_token finds it once blanks are skipped, standing outside
\* strings at the first byte of a maximal lexeme of letters, digits and
\* underscores that starts with a letter or an underscore.
AtWordStart(lx) ==
    /\ lx.in_string_interpolation = 0
    /\ lx.position < Len(lx.source)
    /\ IsIdentifierStart(lx.source[lx.position + 1])
    /\ lx.position > 0 => ~IsIdentifierChar(lx.source[lx.position])

\* C19: a call of next_token that finds the lexer at the start of such a lexeme
\* returns one token for the whole of it: the lexer stands right after the
\* lexeme, and the token has the keyword's kind when the lexeme is a fixed
\* keyword and is otherwise an IDENTIFIER whose text is the lexeme.
C19_OneTokenPerWord ==
    [][LexCalled /\ AtWordStart(SkipWhitespace(lexer)) =>
          LET lx == SkipWhitespace(lexer)
              word == WordFrom(lx.source, lx.position + 1)
          IN  /\ lexer'.position = lx.position + Len(word)
              /\ lexer'.current_token.type = KindOfWord(word)
              /\ KindOfWord(word) = "IDENTIFIER" => lexer'.current_token.text = word]_vars

\* A byte that starts no token: '@', '!', or an '=' that does not open a
\* documentation block.
StartsNoToken(lx) ==
    /\ lx.in_string_interpolation = 0
    /\ lx.position < Len(lx.source)
    /\ \/ CurrentChar(lx) \in {"@", "!"}
       \/ /\ CurrentChar(lx) = "="
          /\ ~(PeekChar(lx, 1) = "=" /\ PeekChar(lx, 2) = "=" /\ PeekChar(lx, 3) = "=")

\* C20: a call of next_token that finds such a byte returns a token of kind
\* UNKNOWN and leaves the lexer right after that byte, where the next call
\* starts.
C20_UnknownByteToken ==
    [][LexCalled /\ StartsNoToken(SkipWhitespace(lexer)) =>
          /\ lexer'.current_token.type = "UNKNOWN"
          /\ lexer'.position = SkipWhitespace(lexer).position + 1]_vars

(***************************************************************************)
(* The arena.  size_t arithmetic wraps; it is modelled on words of          *)
(* SizeBits bits.  A chunk's memory is named by the chunk's place in the    *)
(* list, an address by a chunk and an offset into its memory.               *)
(***************************************************************************)
SizeBits == 16
SizeModulus == 2 ^ SizeBits

\* sysconf(_SC_PAGESIZE)
ARENA_PAGE_SIZE == 4096

NullPointer == [chunk |-> 0, offset |-> 0]

\* chunk_create: the chunk, or null = TRUE when malloc returns NULL (which
\* malloc(0) may also do).
ChunkCreate(min_size, malloc_ok) ==
    LET page_size == ARENA_PAGE_SIZE
        chunk_size == IF min_size > page_size
                      THEN (((min_size + page_size - 1) % SizeModulus) \div page_size) * page_size
                      ELSE page_size
    IN  IF ~malloc_ok THEN [null |-> TRUE]
        ELSE [null |-> FALSE, size |-> chunk_size, used |-> 0]

\* arena_create, malloc succeeding.
ArenaCreate(size) == [chunks |-> <<ChunkCreate(size, TRUE)>>, current_chunk |-> 1]

\* The places of the chunks with room for aligned_size more bytes.
WithRoom(Ar, aligned_size) ==
    {c \in 1..Len(Ar.chunks) :
        (Ar.chunks[c].used + aligned_size) % SizeModulus <= Ar.chunks[c].size}

\* The mutant of arena_alloc: a request always takes at least 8 bytes.
ArenaAlloc_AtLeastEight(Ar, size, malloc_ok) ==
    LET aligned_size == IF size = 0 THEN 8 ELSE (((size + 7) % SizeModulus) \div 8) * 8
        fits == WithRoom(Ar, aligned_size)
        chunk == CHOOSE c \in fits : \A d \in fits : c <= d
        new_chunk == ChunkCreate(aligned_size, malloc_ok)
        n == Len(Ar.chunks) + 1
    IN  IF fits # {}
        THEN [arena |-> [Ar EXCEPT !.current_chunk = chunk,
                                   !.chunks[chunk].used = (@ + aligned_size) % SizeModulus],
              ptr |-> [chunk |-> chunk, offset |-> Ar.chunks[chunk].used]]
        ELSE IF new_chunk.null THEN [arena |-> Ar, ptr |-> NullPointer]
        ELSE [arena |-> [chunks |-> Append(Ar.chunks, [new_chunk EXCEPT !.used = aligned_size]),
                         current_chunk |-> n],
              ptr |-> [chunk |-> n, offset |-> 0]]

\* arena_alloc: first fit over the chunks from the head, else a new chunk at the
\* tail.
ArenaAlloc(Ar, size, malloc_ok) ==
    LET aligned_size == (((size + 7) % SizeModulus) \div 8) * 8
        fits == WithRoom(Ar, aligned_size)
        chunk == CHOOSE c \in fits : \A d \in fits : c <= d
        new_chunk == ChunkCreate(aligned_size, malloc_ok)
        n == Len(Ar.chunks) + 1
    IN  IF fits # {}
        THEN [arena |-> [Ar EXCEPT !.current_chunk = chunk,
                                   !.chunks[chunk].used = (@ + aligned_size) % SizeModulus],
              ptr |-> [chunk |-> chunk, offset |-> Ar.chunks[chunk].used]]
        ELSE IF new_chunk.null THEN [arena |-> Ar, ptr |-> NullPointer]
        ELSE [arena |-> [chunks |-> Append(Ar.chunks, [new_chunk EXCEPT !.used = aligned_size]),
                         current_chunk |-> n],
              ptr |-> [chunk |-> n, offset |-> 0]]

\* arena_reset
ArenaReset(Ar) ==
    [chunks |-> [c \in 1..Len(Ar.chunks) |-> [Ar.chunks[c] EXCEPT !.used = 0]],
     current_chunk |-> 1]

\* arena_available
RECURSIVE AvailableFrom(_, _)
AvailableFrom(Ar, c) ==
    IF c > Len(Ar.chunks) THEN 0
    ELSE ((Ar.chunks[c].size - Ar.chunks[c].used) + AvailableFrom(Ar, c + 1)) % SizeModulus

ArenaAvailable(Ar) == AvailableFrom(Ar, 1)

(***************************************************************************)
(* SpecArena: up to MaxAllocs calls of arena_alloc on a new arena, then a   *)
(* reset, then the same sizes requested again.  arena.A is the Arena;       *)
(* arena.issued the sizes requested since the arena was created, each with  *)
(* the address returned; arena.regions the same for the calls made since    *)
(* the last reset.                                                          *)
(***************************************************************************)
MaxAllocs == 3

CreateSizes == {1, 8192}

AllocSizes == {0, 1, 13, 4096, 4097, SizeModulus - 8, SizeModulus - 1}

InitArena ==
    \E size \in CreateSizes :
        /\ arena = [A |-> ArenaCreate(size), op |-> "arena_create", phase |-> "alloc",
                    size |-> size, ptr |-> NullPointer, issued |-> <<>>, regions |-> <<>>]
        /\ pc = "arena"
        /\ lexer = NewLexer(<<>>)
        /\ stack = <<>>
        /\ tree = <<>>
        /\ errors = <<>>
        /\ consumed = <<>>
        /\ fmt = CreateFormatter
        /\ ast = NoAst
        /\ interp = CreateInterpreter
        /\ exit = -1
        /\ expr = <<>>
        /\ strings = NoStrings
        /\ array = NoArray
        /\ block = NoBlock

ArenaUnchanged ==
    UNCHANGED <<lexer, pc, stack, tree, errors, consumed, fmt, ast, interp, exit, expr, strings,
                array, block>>

\* arena_alloc with a size of the caller's choosing.
CallArenaAlloc ==
    /\ pc = "arena"
    /\ arena.phase = "alloc"
    /\ Len(arena.issued) < MaxAllocs
    /\ \E size \in AllocSizes, malloc_ok \in BOOLEAN :
           LET r == ArenaAlloc(arena.A, size, malloc_ok)
           IN  arena' = [arena EXCEPT !.A = r.arena, !.op = "arena_alloc", !.size = size,
                                      !.ptr = r.ptr,
                                      !.issued = Append(@, [size |-> size, ptr |-> r.ptr]),
                                      !.regions = Append(@, [size |-> size, ptr |-> r.ptr])]
    /\ ArenaUnchanged

CallArenaReset ==
    /\ pc = "arena"
    /\ arena.phase = "alloc"
    /\ arena' = [arena EXCEPT !.A = ArenaReset(arena.A), !.op = "arena_reset", !.phase = "replay",
                              !.size = 0, !.ptr = NullPointer, !.regions = <<>>]
    /\ ArenaUnchanged

\* arena_alloc with the size that was requested at the same place before the
\* reset.
CallArenaReplay ==
    /\ pc = "arena"
    /\ arena.phase = "replay"
    /\ Len(arena.regions) < Len(arena.issued)
    /\ \E malloc_ok \in BOOLEAN :
           LET size == arena.issued[Len(arena.regions) + 1].size
               r == ArenaAlloc(arena.A, size, malloc_ok)
           IN  arena' = [arena EXCEPT !.A = r.arena, !.op = "arena_alloc", !.size = size,
                                      !.ptr = r.ptr,
                                      !.regions = Append(@, [size |-> size, ptr |-> r.ptr])]
    /\ ArenaUnchanged

NextArena == CallArenaAlloc \/ CallArenaReset \/ CallArenaReplay

SpecArena == InitArena /\ [][NextArena]_vars

\* The regions returned since the last reset, those of failed calls left out.
Returned == SelectSeq(arena.regions, LAMBDA r : r.ptr # NullPointer)

\* C24: every region returned since the last reset starts at a multiple of 8 in
\* its chunk and ends inside it, no chunk has used > size, and no two regions of
\* non-zero size share a byte.
C24_RegionsAlignedDisjoint ==
    pc = "arena" =>
        /\ \A c \in 1..Len(arena.A.chunks) : arena.A.chunks[c].used <= arena.A.chunks[c].size
        /\ \A i \in 1..Len(Returned) :
               /\ Returned[i].ptr.offset % 8 = 0
               /\ Returned[i].ptr.offset + Returned[i].size
                      <= arena.A.chunks[Returned[i].ptr.chunk].size
        /\ \A i, j \in 1..Len(Returned) :
               (i < j /\ Returned[i].size > 0 /\ Returned[j].size > 0
                      /\ Returned[i].ptr.chunk = Returned[j].ptr.chunk) =>
                   \/ Returned[i].ptr.offset + Returned[i].size <= Returned[j].ptr.offset
                   \/ Returned[j].ptr.offset + Returned[j].size <= Returned[i].ptr.offset

RECURSIVE SizesFrom(_, _)
SizesFrom(Ar, c) == IF c > Len(Ar.chunks) THEN 0 ELSE Ar.chunks[c].size + SizesFrom(Ar, c + 1)

\* C25: arena_reset leaves every chunk with used = 0, the chunks and their sizes
\* as they were and the first chunk current, so that arena_available is the sum
\* of the sizes; the sizes requested since the creation, requested again after
\* the reset, get the addresses they got the first time.
C25_ResetReplays ==
    /\ [][arena'.op = "arena_reset" =>
              /\ Len(arena'.A.chunks) = Len(arena.A.chunks)
              /\ \A c \in 1..Len(arena.A.chunks) :
                     /\ arena'.A.chunks[c].used = 0
                     /\ arena'.A.chunks[c].size = arena.A.chunks[c].size
              /\ arena'.A.current_chunk = 1
              /\ ArenaAvailable(arena'.A) = SizesFrom(arena'.A, 1)]_vars
    /\ [](pc = "arena" /\ arena.phase = "replay" =>
              \A k \in 1..Len(arena.regions) : arena.regions[k].ptr = arena.issued[k].ptr)

\* C26: arena_alloc of 0 bytes returns an address in or at the end of a chunk
\* that exists, adds no chunk and changes no used counter.
C26_ZeroSizeAlloc ==
    [][pc = "arena" /\ arena'.op = "arena_alloc" /\ arena'.size = 0 /\ arena' # arena =>
          /\ arena'.ptr # NullPointer
          /\ arena'.ptr.chunk \in 1..Len(arena.A.chunks)
          /\ arena'.ptr.offset <= arena.A.chunks[arena'.ptr.chunk].size
          /\ arena'.A.chunks = arena.A.chunks]_vars

\* A zero-size request on an arena whose only chunk is full: the address is the
\* end of the chunk.
C26_Witness ==
    /\ pc = "arena"
    /\ arena.op = "arena_alloc"
    /\ arena.size = 0
    /\ arena.ptr = [chunk |-> 1, offset |-> ARENA_PAGE_SIZE]
    /\ Len(arena.A.chunks) = 1
    /\ arena.A.chunks[1].used = arena.A.chunks[1].size

(***************************************************************************)
(* Interpolated strings: command_lex on sources that open with a run of     *)
(* backticks.                                                               *)
(***************************************************************************)
InterpPieces == {<<BTICK>>, <<"{">>, <<"}">>, <<"a">>, <<" ">>, <<NL>>}

MaxInterpPieces == 5
MaxDelimiters == 2

RECURSIVE InterpBodies(_)
InterpBodies(n) ==
    IF n = 0 THEN {<<>>}
    ELSE InterpBodies(n - 1) \cup {p \o l : p \in InterpBodies(n - 1), l \in InterpPieces}

RECURSIVE Backticks(_)
Backticks(n) == IF n = 0 THEN <<>> ELSE <<BTICK>> \o Backticks(n - 1)

InterpSources ==
    {Backticks(n) \o body : n \in 1..MaxDelimiters, body \in InterpBodies(MaxInterpPieces)}

InitInterp ==
    \E source \in InterpSources :
        /\ lexer = NewLexer(source)
        /\ pc = "lex_start"
        /\ stack = <<>>
        /\ tree = <<>>
        /\ errors = <<>>
        /\ consumed = <<>>
        /\ fmt = CreateFormatter
        /\ ast = NoAst
        /\ interp = CreateInterpreter
        /\ exit = -1
        /\ expr = <<>>
        /\ strings = NoStrings
        /\ array = NoArray
        /\ block = NoBlock
        /\ arena = NoArena

SpecInterp == InitInterp /\ [][NextLex]_vars

\* The tokens next_token has returned so far, the current one last.
TokensRead ==
    IF pc = "lex_start" \/ lexer.hung THEN [i \in 1..Len(consumed) |-> consumed[i].tok]
    ELSE [i \in 1..Len(consumed) |-> consumed[i].tok] \o <<lexer.current_token>>

\* A call of next_token that returns a token of this kind.
Emits(type) == LexCalled /\ ~lexer'.hung /\ lexer'.current_token.type = type

InExpression(lx) == lx.in_string_interpolation > 0 /\ lx.brace_depth > 0

\* C27: inside an interpolated string, a call of next_token that finds the lexer
\* in an embedded expression leaves it out of the expression only when it finds
\* at least N closing braces at brace_depth 1, and then it returns
\* STRING_I_EXPR_END; and among the tokens returned, every STRING_I_EXPR_START
\* that is followed by a STRING_I or STRING_I_END has a STRING_I_EXPR_END in
\* between.
C27_ExpressionEndsByExprEnd ==
    /\ [][LexCalled /\ InExpression(lexer) /\ ~lexer'.hung /\ ~InExpression(lexer') =>
              /\ lexer'.current_token.type = "STRING_I_EXPR_END"
              /\ lexer.brace_depth = 1
              /\ CountCloseBraces(SkipWhitespace(lexer)) >= lexer.in_string_interpolation]_vars
    /\ [](\A i \in 1..Len(TokensRead) : \A j \in (i + 1)..Len(TokensRead) :
             /\ TokensRead[i].type = "STRING_I_EXPR_START"
             /\ TokensRead[j].type \in {"STRING_I", "STRING_I_END"}
             => \E k \in (i + 1)..(j - 1) : TokensRead[k].type = "STRING_I_EXPR_END")

\* The last STRING_I_START among the tokens read: the one that opened the
\* string the lexer is in.
LastStart ==
    LET starts == {i \in 1..Len(TokensRead) : TokensRead[i].type = "STRING_I_START"}
    IN  TokensRead[CHOOSE i \in starts : \A j \in starts : j <= i]

RECURSIVE LineStart(_, _)
LineStart(source, p) ==
    IF p = 0 \/ source[p] = NL THEN p ELSE LineStart(source, p - 1)

\* The line that starts at index from is a closing line of the string: blanks,
\* if any, and then the run of N backticks.
ClosingLineAt(lx, from) ==
    HasClosingAt(lx, from + BlankRun(lx, from), lx.in_string_interpolation)

\* C29: in a multiline string, a call of next_token that returns STRING_I_END
\* for a run preceded on its line by blanks only follows a STRING_I_INDENT
\* token whose text is those blanks when there are any, and follows no
\* STRING_I_INDENT when the run starts the line; and a call that returns STRING_I
\* returns no content that holds the newline before a closing line (nor,
\* then, the blanks after it).
C29_IndentBeforeClosingRun ==
    [][/\ Emits("STRING_I_END") /\ lexer.is_multiline_string = 1 =>
              LET from == LineStart(lexer.source, lexer.position)
                  indent == SubSeq(lexer.source, from + 1, lexer.position)
              IN  (\A i \in 1..Len(indent) : indent[i] \in {" ", TAB}) =>
                      IF indent = <<>>
                      THEN lexer.current_token.type # "STRING_I_INDENT"
                      ELSE /\ lexer.current_token.type = "STRING_I_INDENT"
                           /\ lexer.current_token.text = indent
       /\ Emits("STRING_I") /\ lexer.is_multiline_string = 1 =>
              \A i \in 1..Len(lexer'.current_token.text) :
                  lexer'.current_token.text[i] = NL =>
                      ~ClosingLineAt(lexer, lexer.position + i)]_vars

(***************************************************************************)
(* Documentation blocks: command_lex on sources made of delimiter lines.    *)
(***************************************************************************)
DocPieces == {<<"=", "=", "=", "=">>, <<"=", "=", "=">>, <<NL>>, <<"a">>, <<" ">>}

MaxDocPieces == 5

RECURSIVE DocSources(_)
DocSources(n) ==
    IF n = 0 THEN {<<>>}
    ELSE DocSources(n - 1) \cup {p \o l : p \in DocSources(n - 1), l \in DocPieces}

InitDoc ==
    \E source \in DocSources(MaxDocPieces) :
        /\ lexer = NewLexer(source)
        /\ pc = "lex_start"
        /\ stack = <<>>
        /\ tree = <<>>
        /\ errors = <<>>
        /\ consumed = <<>>
        /\ fmt = CreateFormatter
        /\ ast = NoAst
        /\ interp = CreateInterpreter
        /\ exit = -1
        /\ expr = <<>>
        /\ strings = NoStrings
        /\ array = NoArray
        /\ block = NoBlock
        /\ arena = NoArena

SpecDoc == InitDoc /\ [][NextLex]_vars

\* Four '=' stand at index at.
FourEquals(lx, at) == \A i \in 0..3 : SourceAt(lx, at + i) = "="

\* The index of the newline that ends the line holding index p, the length of
\* the source when no newline follows.
RECURSIVE LineEnd(_, _)
LineEnd(source, p) ==
    IF p >= Len(source) \/ source[p + 1] = NL THEN p ELSE LineEnd(source, p + 1)

\* The index of the first line after the line holding index p that starts with
\* four '=', -1 when there is none.
RECURSIVE ClosingLineAfter(_, _)
ClosingLineAfter(lx, p) ==
    LET next == LineEnd(lx.source, p) + 1
    IN  IF next > Len(lx.source) THEN -1
        ELSE IF FourEquals(lx, next) THEN next
        ELSE ClosingLineAfter(lx, next)

\* C30: a call of next_token returns DOCUMENTATION only when the token it finds
\* is four '=' that start a line and a later line starts with four '=', and the
\* token's text then runs from the opening '=' to the end of the first such
\* line, whatever the lines in between start with; and a call that finds the
\* four '=' at the start of a line, with such a later line, returns that one
\* DOCUMENTATION token.
C30_DocBlockDelimiters ==
    [][LexCalled =>
          LET lx == SkipWhitespace(lexer)
              start == lx.position
              opens == /\ LineStart(lx.source, start) = start
                       /\ FourEquals(lx, start)
              closing == ClosingLineAfter(lx, start)
          IN  /\ Emits("DOCUMENTATION") =>
                     /\ opens
                     /\ closing >= 0
                     /\ lexer'.current_token.text =
                            SubSeq(lx.source, start + 1, LineEnd(lx.source, closing))
              /\ opens /\ closing >= 0 => Emits("DOCUMENTATION")]_vars

(***************************************************************************)
(* Properties of the parser's error recovery and of the tree it returns     *)
(***************************************************************************)
\* An iteration of parse's loop that returns and has recorded an error.
RecoveryStep == pc = "parse" /\ stack # <<>> /\ pc' = "parse" /\ errors' # errors

\* C31: an iteration of the parser that meets an unexpected token makes one
\* recovery: the error list grows by exactly one diagnostic, at its end; the
\* tokens that follow are skipped so that the current token is the next NEWLINE
\* or EOF; and the frame popped is replaced by exactly one PARSE frame for the
\* node in hand.
C31_OneRecoveryPerError ==
    [][RecoveryStep =>
          /\ Len(errors') = Len(errors) + 1
          /\ SubSeq(errors', 1, Len(errors)) = errors
          /\ lexer'.current_token.type \in {"NEWLINE", "EOF"}
          /\ \E parent \in 0..(Len(tree') - 1) :
                 stack' = Append(SubSeq(stack, 1, Len(stack) - 1),
                                 Frame("PARSE", parent, parent, 0))]_vars

\* The kinds of node the parser makes with create_nonterminal_node.
NonterminalKinds ==
    {"PROGRAM", "FUNCTION_DECL", "VAR_DECL", "PARAM_LIST", "BLOCK", "CALL_EXPR", "ARG_LIST",
     "MATCH_EXPR", "MATCH_STMT", "MATCH_ARM", "NOT_EXPR", "NEGATE_EXPR", "AND_EXPR", "OR_EXPR",
     "PLUS_EXPR", "PIPE_EXPR"}

\* Node j is met within k steps along the next_sibling links that leave node i.
RECURSIVE LaterSibling(_, _, _, _)
LaterSibling(t, i, j, k) ==
    LET next == Node(t, i).next_sibling
    IN  k > 0 /\ next # -1 /\ (next = j \/ LaterSibling(t, next, j, k - 1))

SiblingsAcyclic(t) == \A i \in 0..(Len(t) - 1) : ~LaterSibling(t, i, i, Len(t))

\* The number of places of the sequence that hold x.
Occurrences(seq, x) == Cardinality({k \in 1..Len(seq) : seq[k] = x})

\* C32: when parse has returned, with or without errors, the sibling lists of
\* the tree are acyclic; every node but the root has a parent whose child list
\* holds it exactly once, and hangs from the root; a node of a nonterminal kind
\* has the empty token (kind UNKNOWN, no text) and every other node carries a
\* token that the parser read.
C32_TreeWellFormed ==
    pc = "parsed" =>
        /\ SiblingsAcyclic(tree)
        /\ \A i \in 0..(Len(tree) - 1) :
               /\ i # 0 =>
                      /\ Node(tree, i).parent \in 0..(Len(tree) - 1)
                      /\ Occurrences(Children(tree, Node(tree, i).parent), i) = 1
                      /\ Attached(tree, i)
               /\ IF Node(tree, i).type \in NonterminalKinds
                  THEN Node(tree, i).token = NoToken
                  ELSE \E k \in 1..Len(consumed) : consumed[k].tok = Node(tree, i).token

(***************************************************************************)
(* Variable declarations.  execute_var_decl is applied to declarations      *)
(* name : value put together with the functions of ast.c, the value being   *)
(* an expression of every kind evaluate_expression has a case for and of    *)
(* kinds it has none for; the interpreter holds a string and a boolean.     *)
(***************************************************************************)
D_Flag == <<"b">>
D_New == <<"n">>

DeclNames == {M_Bound, D_Flag, D_New}
DeclOperands == {M_True, M_False, M_DoubleA, M_Bound, D_Flag, M_Unbound}
UnaryKinds == {"AST_NOT_EXPR", "AST_NEGATE_EXPR"}
BinaryKinds == {"AST_AND_EXPR", "AST_OR_EXPR", "AST_PLUS_EXPR", "AST_PIPE_EXPR"}

\* The values declared: an operand, an operator applied to operands, or a match
\* on an operand with the arms given.
DeclValues ==
    {<<"operand", x>> : x \in DeclOperands}
    \cup {<<kind, x>> : kind \in UnaryKinds, x \in DeclOperands}
    \cup {<<kind, x, y>> : kind \in BinaryKinds, x \in DeclOperands, y \in DeclOperands}
    \cup {<<"match", x, arms>> : x \in {M_True, M_Bound}, arms \in ArmLists(1)}

\* The arms added in order under the match node at index match_idx.
RECURSIVE AddArmsUnder(_, _, _)
AddArmsUnder(a, match_idx, arms) ==
    IF arms = <<>> THEN a
    ELSE LET a1 == AddUnder(a, match_idx, CreateAstNonterminal("AST_MATCH_ARM"))
             a2 == AddUnder(a1, Len(a), Terminal(Head(arms)[1]))
             a3 == AddUnder(a2, Len(a), Terminal(Head(arms)[2]))
         IN  AddArmsUnder(a3, match_idx, Tail(arms))

\* The declaration node at index 0, its name at 1, its value at 2.
DeclTree(name, value) ==
    LET a == AddUnder(<<CreateAstNonterminal("AST_VAR_DECL")>>, 0, Terminal(name))
    IN  IF value[1] = "operand" THEN AddUnder(a, 0, Terminal(value[2]))
        ELSE IF value[1] = "match"
        THEN AddArmsUnder(AddUnder(AddUnder(a, 0, CreateAstNonterminal("AST_MATCH_EXPR")),
                                   2, Terminal(value[2])),
                          2, value[3])
        ELSE IF Len(value) = 2
        THEN AddUnder(AddUnder(a, 0, CreateAstNonterminal(value[1])), 2, Terminal(value[2]))
        ELSE AddUnder(AddUnder(AddUnder(a, 0, CreateAstNonterminal(value[1])),
                               2, Terminal(value[2])),
                      2, Terminal(value[3]))

\* An interpreter in which s is bound to a string and b to a boolean.
DeclInterpreter == StoreVariable(MatchInterpreter, D_Flag, "VALUE_BOOLEAN", NoText, TRUE)

InitDecl ==
    \E name \in DeclNames, value \in DeclValues :
        /\ ast = [nodes |-> DeclTree(name, value), root |-> 0]
        /\ interp = DeclInterpreter
        /\ pc = "decl"
        /\ expr = <<>>
        /\ exit = -1
        /\ lexer = NewLexer(<<>>)
        /\ stack = <<>>
        /\ tree = <<>>
        /\ errors = <<>>
        /\ consumed = <<>>
        /\ fmt = CreateFormatter
        /\ strings = NoStrings
        /\ array = NoArray
        /\ block = NoBlock
        /\ arena = NoArena

\* execute_var_decl on the declaration; expr keeps what the call returned.
ExecuteVarDeclaration ==
    /\ pc = "decl"
    /\ LET result == ExecuteVarDecl(ast.nodes, interp, ast.root)
       IN  /\ expr' = result
           /\ interp' = result.I
           /\ exit' = result.rc
    /\ pc' = "declared"
    /\ UNCHANGED <<arena, lexer, stack, tree, errors, consumed, fmt, ast, strings, array, block>>

NextDecl == ExecuteVarDeclaration

SpecDecl == InitDecl /\ [][NextDecl]_vars

\* The value node of the declaration, its operands, and what evaluating each
\* by itself returns.
ValueNode == Node(ast.nodes, 2)
LeftIdx == ValueNode.first_child
RightIdx == Node(ast.nodes, LeftIdx).next_sibling
LeftValue == EvaluateExpression(ast.nodes, DeclInterpreter, LeftIdx)
RightValue == EvaluateExpression(ast.nodes, DeclInterpreter, RightIdx)
Logical == ValueNode.type \in {"AST_AND_EXPR", "AST_OR_EXPR"}

\* The message for an operand that is no boolean, and the decided value.
OperandsError ==
    [message |-> (IF ValueNode.type = "AST_AND_EXPR" THEN "AND" ELSE "OR")
                     \o " operator requires boolean operands",
     name |-> NoText]
Combined ==
    IF ValueNode.type = "AST_AND_EXPR" THEN LeftValue.bool /\ RightValue.bool
    ELSE LeftValue.bool \/ RightValue.bool

\* The declaration succeeded and bound its name to the boolean value.
DeclaredBoolean(value) ==
    LET i == LookupVariable(interp, Node(ast.nodes, 1).token.text)
    IN  /\ expr.rc = 0
        /\ expr.I.err = <<>>
        /\ i # 0
        /\ interp.variables[i].type = "VALUE_BOOLEAN"
        /\ interp.variables[i].bool_value = value

RoundedUp(size, unit) == ((size + unit - 1) \div unit) * unit

\* The places of the chunks whose remaining capacity holds bytes more bytes.
Holding(Ar, bytes) ==
    {c \in 1..Len(Ar.chunks) : Ar.chunks[c].size - Ar.chunks[c].used >= bytes}

\* A call of arena_alloc.
ArenaAllocStep == pc = "arena" /\ arena'.op = "arena_alloc" /\ arena'.issued # <<>> /\ arena' # arena

\* C34: a call of arena_alloc takes the first chunk from the head whose
\* remaining capacity holds the size rounded up to a multiple of 8, returns the
\* offset that chunk was used up to and raises it by the rounded size, the other
\* chunks left as they are; when no chunk holds it, a call that returns an
\* address has appended one chunk at the tail, of the rounded size rounded up to
\* a multiple of the page size and at least one page, and returns its offset 0.
C34_FirstFitElseNewChunk ==
    [][ArenaAllocStep =>
          LET rounded == RoundedUp(arena'.size, 8)
              fits == Holding(arena.A, rounded)
              first == CHOOSE c \in fits : \A d \in fits : c <= d
              n == Len(arena.A.chunks)
          IN  IF fits # {}
              THEN /\ arena'.ptr = [chunk |-> first, offset |-> arena.A.chunks[first].used]
                   /\ arena'.A.chunks =
                          [arena.A.chunks EXCEPT ![first].used = @ + rounded]
              ELSE arena'.ptr # NullPointer =>
                       /\ arena'.ptr = [chunk |-> n + 1, offset |-> 0]
                       /\ Len(arena'.A.chunks) = n + 1
                       /\ SubSeq(arena'.A.chunks, 1, n) = arena.A.chunks
                       /\ arena'.A.chunks[n + 1].size =
                              IF RoundedUp(rounded, ARENA_PAGE_SIZE) > ARENA_PAGE_SIZE
                              THEN RoundedUp(rounded, ARENA_PAGE_SIZE)
                              ELSE ARENA_PAGE_SIZE]_vars

(***************************************************************************)
(* Further properties of the chunked array.                                *)
(***************************************************************************)
\* C35: after any calls of append, set, pop and clear, elements_per_chunk is
\* PAGE_SIZE / element_size for an element smaller than a page and 20 otherwise,
\* the length is at most the capacity, the capacity is the number of chunks times
\* elements_per_chunk, the number of chunks is the largest length ever reached
\* divided by elements_per_chunk and rounded up, and tail is the last chunk of
\* the list (NULL while there is none).
C35_ChunkAccounting ==
    pc = "array" =>
        LET A == array.A
            n == Len(A.chunks)
        IN  /\ A.elements_per_chunk = IF A.element_size < PAGE_SIZE
                                      THEN PAGE_SIZE \div A.element_size
                                      ELSE LARGE_CHUNK_ELEMENTS
            /\ A.length <= A.capacity
            /\ A.capacity = n * A.elements_per_chunk
            /\ n = (array.longest + A.elements_per_chunk - 1) \div A.elements_per_chunk
            /\ A.tail = IF n = 0 THEN 0 ELSE A.chunks[n].address

\* C35 witness: an array of two chunks that has held three elements and, after
\* a pop or a clear, holds fewer.
C35_Witness ==
    /\ pc = "array"
    /\ Len(array.A.chunks) = 2
    /\ array.longest = 3
    /\ array.A.length < 2
    /\ array.calls > 3

\* C35 witness of the large-element rule: an array of page-sized elements holds
\* one element in its one chunk of 20.
C35_WitnessLarge ==
    /\ pc = "array"
    /\ array.A.element_size = PAGE_SIZE
    /\ array.A.length = 1
    /\ array.A.capacity = LARGE_CHUNK_ELEMENTS

(***************************************************************************)
(* Further properties of interpolated strings.                             *)
(***************************************************************************)
\* C36: a call of next_token made inside an interpolated string (after its
\* STRING_I_START) that does not return the STRING_I_END leaves
\* in_string_interpolation and is_multiline_string as they were, whatever the
\* token it reads inside an embedded expression; and brace_depth is never
\* negative and is above 0 only while in_string_interpolation is above 0.
C36_InterpolationStateKept ==
    /\ [][LexCalled /\ lexer.in_string_interpolation > 0 /\ ~lexer'.hung
            /\ lexer'.current_token.type # "STRING_I_END" =>
              /\ lexer'.in_string_interpolation = lexer.in_string_interpolation
              /\ lexer'.is_multiline_string = lexer.is_multiline_string]_vars
    /\ [](/\ lexer.brace_depth >= 0
          /\ lexer.brace_depth > 0 => lexer.in_string_interpolation > 0)

(***************************************************************************)
(* SpecTokens: the PARSE_EXPRESSION case of parse() run on every sequence  *)
(* of at most MaxTokens operands and operators, well-formed or not, handed *)
(* to the parser as a token stream that ends in EOF.  expr keeps the       *)
(* tokens given.                                                           *)
(***************************************************************************)
MaxTokens == 3

RECURSIVE TokenKinds(_)
TokenKinds(k) ==
    IF k = 0 THEN {<<>>}
    ELSE TokenKinds(k - 1)
         \cup {Append(p, t) : p \in TokenKinds(k - 1),
                              t \in UnaryTokens \cup BinaryTokens \cup {"OPERAND"}}

InitTokens ==
    \E types \in TokenKinds(MaxTokens), offset \in 0..3 :
        /\ expr = ExprTokens(types, offset)
        /\ strings = NoStrings
        /\ array = NoArray
        /\ block = NoBlock
        /\ arena = NoArena
        /\ lexer = TokenLexer(expr)
        /\ pc = "parse"
        /\ stack = <<Frame("PARSE_EXPRESSION", 0, 0, 0)>>
        /\ tree = <<CreateNonterminalNode("PROGRAM")>>
        /\ errors = <<>>
        /\ consumed = <<>>
        /\ fmt = CreateFormatter
        /\ ast = NoAst
        /\ interp = CreateInterpreter
        /\ exit = -1

\* After new_error the loop of parse() pops the PARSE frame it pushed.
NextTokens == ParseExpression \/ ParseTopLevel \/ ParseReturn

SpecTokens == InitTokens /\ [][NextTokens]_vars

\* The kinds of the tokens before EOF, every operand written OPERAND.
KindsOf(ts) ==
    [i \in 1..(Len(ts) - 1) |-> IF IsOperandToken(ts[i].type) THEN "OPERAND" ELSE ts[i].type]

WellFormed(ts) == KindsOf(ts) \in WellFormedExprs

\* C37: once parse() has returned from a token sequence that is not a
\* well-formed infix expression (two operands adjacent, a binary operator
\* without an operand, a unary operator after its operand, no operand at all),
\* "Invalid expression" is among the diagnostics and no expression node is
\* attached to the parent.
C37_MalformedRejected ==
    (pc = "parsed" /\ expr # <<>> /\ ~WellFormed(expr)) =>
        /\ \E i \in 1..Len(errors) : errors[i].message = "Invalid expression"
        /\ Children(tree, 0) = <<>>

(***************************************************************************)
(* Further properties of variable declarations.                            *)
(***************************************************************************)
\* What evaluating the declared value by itself returns.
DeclaredValue == EvaluateExpression(ast.nodes, DeclInterpreter, 2)

\* The value is of one of the kinds that cannot be evaluated: an unbound name,
\* a not of a string, an and/or with an operand that is evaluated and is no
\* boolean, a match without an arm to take, a +, a | or a unary minus.
CannotEvaluate ==
    \/ ValueNode.type \in {"AST_PLUS_EXPR", "AST_PIPE_EXPR", "AST_NEGATE_EXPR"}
    \/ ValueNode.type = "AST_IDENTIFIER" /\ LookupVariable(DeclInterpreter, ValueNode.token.text) = 0
    \/ ValueNode.type = "AST_NOT_EXPR" /\ LeftValue.rc = 0 /\ LeftValue.type # "VALUE_BOOLEAN"
    \/ Logical /\ LeftValue.rc = 0 /\ LeftValue.type # "VALUE_BOOLEAN"
    \/ Logical /\ LeftValue.rc = 0 /\ RightValue.rc = 0 /\ RightValue.type # "VALUE_BOOLEAN"
    \/ ValueNode.type = "AST_MATCH_EXPR" /\ RightIdx = -1

\* C38: execute_var_decl on a declaration whose value fails to evaluate (the
\* kinds above among them) returns non-zero and leaves the variables as they
\* were: nothing is added, and a name already bound keeps its value and type.
C38_FailedDeclarationStoresNothing ==
    pc = "declared" =>
        /\ CannotEvaluate => DeclaredValue.rc # 0
        /\ DeclaredValue.rc # 0 =>
               /\ exit # 0
               /\ interp.variables = DeclInterpreter.variables

\* C38 witness: s, bound to a string, was declared again as not s; the
\* declaration failed and s is the string it was.
C38_Witness ==
    /\ pc = "declared"
    /\ Node(ast.nodes, 1).token.text = M_Bound
    /\ ValueNode.type = "AST_NOT_EXPR"
    /\ Node(ast.nodes, LeftIdx).token.text = M_Bound
    /\ exit = 1
    /\ interp.variables[LookupVariable(interp, M_Bound)].type = "VALUE_STRING"
    /\ interp.variables[LookupVariable(interp, M_Bound)].string_value = M_DoubleA

(***************************************************************************)
(* SpecFormat: command_format, the parser and then format_tree one         *)
(* iteration at a time, on every program of at most MaxFormatLines lines   *)
(* among a function header, a print call and a closing brace; functions    *)
(* declared inside functions give blocks inside blocks.                    *)
(***************************************************************************)
MaxFormatLines == 5

FormatLines == {L_Function, L_Print, L_Close}

RECURSIVE FormatPrograms(_)
FormatPrograms(n) ==
    IF n = 0 THEN {<<>>}
    ELSE FormatPrograms(n - 1) \cup {p \o l : p \in FormatPrograms(n - 1), l \in FormatLines}

InitFormat ==
    \E source \in FormatPrograms(MaxFormatLines) :
        /\ lexer = CreateLexer(source)
        /\ pc = "start"
        /\ stack = <<>>
        /\ tree = <<>>
        /\ errors = <<>>
        /\ consumed = <<>>
        /\ fmt = CreateFormatter
        /\ ast = NoAst
        /\ exit = -1
        /\ interp = CreateInterpreter
        /\ expr = <<>>
        /\ strings = NoStrings
        /\ array = NoArray
        /\ block = NoBlock
        /\ arena = NoArena

NextFormat ==
    \/ ParseBegin
    \/ ParseTopLevel
    \/ ParseStatement
    \/ ParseFunctionDecl
    \/ ParseParamList
    \/ ParseBlock
    \/ ParseCallArgs
    \/ ParseReturn
    \/ SyntaxErrorsFound
    \/ CommandFormat
    \/ FormatStep
    \/ FormatReturn

SpecFormat == InitFormat /\ [][NextFormat]_vars

\* The number of BLOCK nodes above node idx.
RECURSIVE EnclosingBlocks(_, _)
EnclosingBlocks(t, idx) ==
    LET parent == Node(t, idx).parent
    IN  IF parent = -1 THEN 0
        ELSE EnclosingBlocks(t, parent) + (IF Node(t, parent).type = "BLOCK" THEN 1 ELSE 0)

\* The FORMAT_INDENT_DEC frames on the formatter's stack.
PendingDecrements == {i \in 1..Len(fmt.stack) : fmt.stack[i].state = "FORMAT_INDENT_DEC"}

\* C39: while format_tree runs, current_indent is never negative; when the
\* frame to run next is that of a node, current_indent is the number of BLOCK
\* nodes that enclose the node; every increment not yet undone has exactly one
\* FORMAT_INDENT_DEC frame on the stack, pushed when the BLOCK was entered below
\* the frame of its children, and current_indent falls only when such a frame
\* is run; and when the loop has ended the stack is empty and current_indent is 0.
C39_IndentFollowsBlocks ==
    /\ [](pc = "format" =>
            /\ fmt.current_indent >= 0
            /\ fmt.current_indent = Cardinality(PendingDecrements)
            /\ fmt.stack # <<>> /\ HasNode(tree, fmt.stack[Len(fmt.stack)].node_idx)
                   /\ fmt.stack[Len(fmt.stack)].state
                          \in {"FORMAT_NODE", "FORMAT_TERMINAL", "FORMAT_COMMENT"}
               => fmt.current_indent = EnclosingBlocks(tree, fmt.stack[Len(fmt.stack)].node_idx))
    /\ [][pc = "format" /\ pc' = "format" =>
             LET frame == fmt.stack[Len(fmt.stack)]
                 n == Len(fmt.stack)
             IN  /\ fmt'.current_indent < fmt.current_indent =>
                        /\ frame.state = "FORMAT_INDENT_DEC"
                        /\ fmt'.current_indent = fmt.current_indent - 1
                 /\ fmt'.current_indent > fmt.current_indent =>
                        /\ frame.state = "FORMAT_NODE"
                        /\ Node(tree, frame.node_idx).type = "BLOCK"
                        /\ fmt'.current_indent = fmt.current_indent + 1
                        /\ Len(fmt'.stack) = n + 3
                        /\ fmt'.stack[n + 1].state = "FORMAT_INDENT_DEC"
                        /\ fmt'.stack[n + 2] = FormatFrame("FORMAT_CHILDREN", frame.node_idx, -1)]_vars
    /\ [](pc = "formatted" => fmt.stack = <<>> /\ fmt.current_indent = 0)

\* C39 witness: a statement inside a block inside a block is about to be
\* formatted at indent 2.
C39_Witness ==
    /\ pc = "format"
    /\ fmt.stack # <<>>
    /\ fmt.stack[Len(fmt.stack)].state = "FORMAT_TERMINAL"
    /\ EnclosingBlocks(tree, fmt.stack[Len(fmt.stack)].node_idx) = 2
    /\ fmt.current_indent = 2

\* C39 witness of the end: the loop has ended on a tree with a block inside a
\* block.
C39_WitnessEnd ==
    /\ pc = "formatted"
    /\ \E i \in 0..(Len(tree) - 1) : EnclosingBlocks(tree, i) = 2
    /\ fmt.current_indent = 0

(***************************************************************************)
(* SpecCalloc: up to MaxCallocs calls of arena_alloc and arena_calloc on a *)
(* new arena.  arena.A is the Arena; arena.count and arena.size are the    *)
(* arguments of the last call (count is 1 for arena_alloc), arena.ptr the  *)
(* address it returned and arena.zeroed the number of bytes it set to 0.   *)
(***************************************************************************)
MaxCallocs == 2

\* arena_calloc: the bytes memset writes are those of the product as size_t.
ArenaCalloc(Ar, count, size, malloc_ok) ==
    LET total_size == (count * size) % SizeModulus
        r == ArenaAlloc(Ar, total_size, malloc_ok)
    IN  [arena |-> r.arena, ptr |-> r.ptr,
         zeroed |-> IF r.ptr # NullPointer THEN total_size ELSE 0]

CallocCounts == {0, 1, 3, 256, 8192}
CallocSizes == {0, 1, 8, 256, 4097}

InitCalloc ==
    \E size \in CreateSizes :
        /\ arena = [A |-> ArenaCreate(size), op |-> "arena_create", calls |-> 0, count |-> 1,
                    size |-> size, ptr |-> NullPointer, zeroed |-> 0]
        /\ pc = "arena"
        /\ lexer = NewLexer(<<>>)
        /\ stack = <<>>
        /\ tree = <<>>
        /\ errors = <<>>
        /\ consumed = <<>>
        /\ fmt = CreateFormatter
        /\ ast = NoAst
        /\ interp = CreateInterpreter
        /\ exit = -1
        /\ expr = <<>>
        /\ strings = NoStrings
        /\ array = NoArray
        /\ block = NoBlock

\* arena_alloc with a size of the caller's choosing.
CallAlloc ==
    /\ pc = "arena"
    /\ arena.calls < MaxCallocs
    /\ \E size \in AllocSizes, malloc_ok \in BOOLEAN :
           LET r == ArenaAlloc(arena.A, size, malloc_ok)
           IN  arena' = [A |-> r.arena, op |-> "arena_alloc", calls |-> arena.calls + 1,
                         count |-> 1, size |-> size, ptr |-> r.ptr, zeroed |-> 0]
    /\ ArenaUnchanged

\* arena_calloc with a count and a size of the caller's choosing.
CallCalloc ==
    /\ pc = "arena"
    /\ arena.calls < MaxCallocs
    /\ \E count \in CallocCounts, size \in CallocSizes, malloc_ok \in BOOLEAN :
           LET r == ArenaCalloc(arena.A, count, size, malloc_ok)
           IN  arena' = [A |-> r.arena, op |-> "arena_calloc", calls |-> arena.calls + 1,
                         count |-> count, size |-> size, ptr |-> r.ptr, zeroed |-> r.zeroed]
    /\ ArenaUnchanged

NextCalloc == CallAlloc \/ CallCalloc

SpecCalloc == InitCalloc /\ [][NextCalloc]_vars

\* C40: a call of arena_alloc(n) that returns an address returns that of n
\* bytes inside one chunk, and a call of arena_calloc(count, size) that returns
\* an address returns that of count * size bytes inside one chunk, all of them
\* set to 0; n and count * size are the numbers themselves, whatever the
\* arithmetic of size_t makes of them.
C40_RegionHoldsRequest ==
    [][pc = "arena" /\ arena'.calls = arena.calls + 1 /\ arena'.ptr # NullPointer =>
          /\ arena'.ptr.chunk \in 1..Len(arena'.A.chunks)
          /\ arena'.ptr.offset + arena'.count * arena'.size
                 <= arena'.A.chunks[arena'.ptr.chunk].size
          /\ arena'.op = "arena_calloc" => arena'.zeroed = arena'.count * arena'.size]_vars

====
